---- MODULE Spec2Model ----
(***************************************************************************)
(* A model of the gaers.bio search engines:                                *)
(*   assets/js/utils.js        Paginator, TableSorter                      *)
(*   assets/js/gene-search.js  GeneSearchEngine                            *)
(*   publications.js           PublicationsEngine                          *)
(*                                                                         *)
(* JavaScript arrays are objects on a heap: a field holds a reference, and *)
(* Array.prototype.sort reorders the array every holder of the reference   *)
(* sees.  An array of records holds references too: its elements are the   *)
(* indices of the record objects created at load time.  Numbers with a     *)
(* fractional part are scaled to integers: adjusted p-values to            *)
(* thousandths and log2 fold changes to tenths.  Strings are sequences of  *)
(* one-character strings.                                                  *)
(***************************************************************************)
EXTENDS Integers, Sequences, FiniteSets, TLC

VARIABLES
  mode,          \* what runs: a page ("gene", "publications") or a class or function alone
  heap,          \* the arrays: reference -> sequence of record references
  objects,       \* the record objects created at load time, in document order
  gene,          \* the GeneSearchEngine fields
  pub,           \* the PublicationsEngine fields
  paginator,     \* the Paginator fields
  sorter,        \* the TableSorter fields
  controls,      \* what updateControls last wrote into the pagination container
  rendered,      \* the page data the render callback last received
  resultsCount,  \* what updateResultsCount last wrote
  lastOp,        \* the handler that ran last, its argument and whether it rendered
  load,          \* initialize: how the fetch settled, and the loading / error display
  download,      \* the file the handler that ran last handed to the browser, if any
  debounced,     \* the timers and closures of the debounced handlers, and the clock
  charts,        \* charts.js: the chartInstances registry and the Chart objects made
  index          \* build-gene-database.js: the sources read and the geneMap built

vars == <<mode, heap, objects, gene, pub, paginator, sorter, controls, rendered,
          resultsCount, lastOp, load, download, debounced, charts, index>>

(***************************************************************************)
(* Bounds of the model.                                                    *)
(***************************************************************************)
MaxItems == 5       \* longest array handed to a stand-alone Paginator
MaxPerPage == 3     \* largest page size handed to a stand-alone Paginator

(***************************************************************************)
(* Arithmetic and array helpers.                                           *)
(***************************************************************************)
Min(a, b) == IF a <= b THEN a ELSE b
Max(a, b) == IF a >= b THEN a ELSE b

\* Math.ceil(n / k) for n >= 0, k >= 1
Ceil(n, k) == (n + k - 1) \div k

\* Array.prototype.slice(start, end) for 0 <= start: indices are 0-based, end
\* is exclusive and clamped to the length
Slice(s, start, end) ==
  LET lo == Min(start, Len(s))
      hi == Max(lo, Min(end, Len(s)))
  IN SubSeq(s, lo + 1, hi)

(***************************************************************************)
(* Paginator (utils.js).                                                   *)
(***************************************************************************)
NewPaginator(data, itemsPerPage) ==
  [allData |-> data, itemsPerPage |-> itemsPerPage, currentPage |-> 1,
   renderCallback |-> FALSE]

getTotalPages(p, h) == Ceil(Len(h[p.allData]), p.itemsPerPage)

getCurrentPageData_Inclusive(p, h) ==
  LET startIndex == (p.currentPage - 1) * p.itemsPerPage
      endIndex == startIndex + p.itemsPerPage
  IN Slice(h[p.allData], startIndex, endIndex + 1)

getCurrentPageData(p, h) ==
  LET startIndex == (p.currentPage - 1) * p.itemsPerPage
      endIndex == startIndex + p.itemsPerPage
  IN Slice(h[p.allData], startIndex, endIndex)

NoControls ==
  [shown |-> FALSE, startItem |-> 0, endItem |-> 0, total |-> 0,
   currentPage |-> 0, totalPages |-> 0, prevDisabled |-> FALSE,
   nextDisabled |-> FALSE, itemsPerPage |-> 0]

updateControls(p, h) ==
  LET totalPages == getTotalPages(p, h)
  IN [shown |-> TRUE,
      startItem |-> (p.currentPage - 1) * p.itemsPerPage + 1,
      endItem |-> Min(p.currentPage * p.itemsPerPage, Len(h[p.allData])),
      total |-> Len(h[p.allData]),
      currentPage |-> p.currentPage,
      totalPages |-> totalPages,
      prevDisabled |-> (p.currentPage = 1),
      nextDisabled |-> (p.currentPage = totalPages),
      itemsPerPage |-> p.itemsPerPage]

\* What a Paginator method leaves behind: the fields, the controls, the data
\* the render callback received (r when it was not called) and whether it
\* was called.
PagOut(p, c, r, called) ==
  [paginator |-> p, controls |-> c, rendered |-> r, called |-> called]

\* The tail shared by goToPage, updateData and changeItemsPerPage:
\* updateControls, then the render callback when one is set.
Refresh(p, h, r) ==
  PagOut(p, updateControls(p, h),
         IF p.renderCallback THEN getCurrentPageData(p, h) ELSE r,
         p.renderCallback)

goToPage_Clamp(p, h, c, r, pg) ==
  LET totalPages == getTotalPages(p, h)
  IN Refresh([p EXCEPT !.currentPage = Max(1, Min(pg, totalPages))], h, r)

goToPage_NoUpper(p, h, c, r, pg) ==
  IF pg < 1
    THEN PagOut(p, c, r, FALSE)
    ELSE Refresh([p EXCEPT !.currentPage = pg], h, r)

goToPage(p, h, c, r, pg) ==
  LET totalPages == getTotalPages(p, h)
  IN IF pg < 1 \/ pg > totalPages
       THEN PagOut(p, c, r, FALSE)
       ELSE Refresh([p EXCEPT !.currentPage = pg], h, r)

nextPage(p, h, c, r) ==
  IF p.currentPage < getTotalPages(p, h)
    THEN goToPage(p, h, c, r, p.currentPage + 1)
    ELSE PagOut(p, c, r, FALSE)

prevPage(p, h, c, r) ==
  IF p.currentPage > 1
    THEN goToPage(p, h, c, r, p.currentPage - 1)
    ELSE PagOut(p, c, r, FALSE)

updateData_KeepPage(p, h, r, data) ==
  Refresh([p EXCEPT !.allData = data], h, r)

updateData(p, h, r, data) ==
  Refresh([p EXCEPT !.allData = data, !.currentPage = 1], h, r)

changeItemsPerPage(p, h, r, itemsPerPage) ==
  Refresh([p EXCEPT !.itemsPerPage = itemsPerPage, !.currentPage = 1], h, r)

onPageChange(p) == [p EXCEPT !.renderCallback = TRUE]

(***************************************************************************)
(* The values the other pages' fields hold while a Paginator runs alone.   *)
(***************************************************************************)
NoEngine == [loaded |-> FALSE]
\* No page, no export yet, no debounced handler
NoLoad == [response |-> "none", status |-> "none"]
NoDownload == [made |-> FALSE, text |-> << >>]
NoDebounce == [now |-> 0]
\* No chart script, no index builder
NoCharts == [loaded |-> FALSE]
NoIndex == [phase |-> "none"]
NoSorter == [data |-> 0, sortColumn |-> "null", sortDirection |-> "asc"]
NoCount == [filtered |-> 0, total |-> 0]
\* this.paginator = null
NoPaginator == [allData |-> 0, itemsPerPage |-> 0, currentPage |-> 0,
                renderCallback |-> FALSE]

Op(op, arg, from, called) ==
  [op |-> op, arg |-> arg, from |-> from, rendered |-> called]

(***************************************************************************)
(* A Paginator driven directly: new Paginator(id, data, k) over any array  *)
(* of up to MaxItems items, then any sequence of its methods.              *)
(***************************************************************************)
PagRefs == 1..(MaxItems + 1)
PagHeap == [ref \in PagRefs |-> [i \in 1..(ref - 1) |-> i]]
PageArgs == (-1)..(MaxItems + 2)

InitPaginator ==
  /\ mode = "paginator"
  /\ heap = PagHeap
  /\ objects = << >>
  /\ gene = NoEngine
  /\ pub = NoEngine
  /\ sorter = NoSorter
  /\ \E data \in PagRefs, k \in 1..MaxPerPage : paginator = NewPaginator(data, k)
  /\ controls = NoControls
  /\ rendered = << >>
  /\ resultsCount = NoCount
  /\ lastOp = Op("new", 0, 1, FALSE)
  /\ load = NoLoad
  /\ download = NoDownload
  /\ charts = NoCharts
  /\ index = NoIndex
  /\ debounced = NoDebounce

\* Apply a Paginator method's outcome
PagStep(out, op, arg) ==
  /\ paginator' = out.paginator
  /\ controls' = out.controls
  /\ rendered' = out.rendered
  /\ lastOp' = Op(op, arg, paginator.currentPage, out.called)

PagOnPageChange ==
  /\ mode = "paginator"
  /\ paginator' = onPageChange(paginator)
  /\ lastOp' = Op("onPageChange", 0, paginator.currentPage, FALSE)
  /\ download' = NoDownload
  /\ UNCHANGED <<mode, charts, index,
                 load, debounced, heap, objects, gene, pub, sorter, controls, rendered,
                 resultsCount>>

PagGoToPage(pg) ==
  /\ mode = "paginator"
  /\ PagStep(goToPage(paginator, heap, controls, rendered, pg), "goToPage", pg)
  /\ download' = NoDownload
  /\ UNCHANGED <<mode, charts, index,
                 load, debounced, heap, objects, gene, pub, sorter, resultsCount>>

PagNextPage ==
  /\ paginator # NoPaginator
  /\ PagStep(nextPage(paginator, heap, controls, rendered), "nextPage", 0)
  /\ download' = NoDownload
  /\ UNCHANGED <<mode, charts, index,
                 load, debounced, heap, objects, gene, pub, sorter, resultsCount>>

PagPrevPage ==
  /\ paginator # NoPaginator
  /\ PagStep(prevPage(paginator, heap, controls, rendered), "prevPage", 0)
  /\ download' = NoDownload
  /\ UNCHANGED <<mode, charts, index,
                 load, debounced, heap, objects, gene, pub, sorter, resultsCount>>

PagUpdateData(data) ==
  /\ mode = "paginator"
  /\ PagStep(updateData(paginator, heap, rendered, data), "updateData", data)
  /\ download' = NoDownload
  /\ UNCHANGED <<mode, charts, index,
                 load, debounced, heap, objects, gene, pub, sorter, resultsCount>>

PagChangeItemsPerPage(k) ==
  /\ paginator # NoPaginator
  /\ PagStep(changeItemsPerPage(paginator, heap, rendered, k), "changeItemsPerPage", k)
  /\ download' = NoDownload
  /\ UNCHANGED <<mode, charts, index,
                 load, debounced, heap, objects, gene, pub, sorter, resultsCount>>

NextPaginator ==
  \/ PagOnPageChange
  \/ \E pg \in PageArgs : PagGoToPage(pg)
  \/ PagNextPage
  \/ PagPrevPage
  \/ \E data \in PagRefs : PagUpdateData(data)
  \/ \E k \in 1..MaxPerPage : PagChangeItemsPerPage(k)

SpecPaginator == InitPaginator /\ [][NextPaginator]_vars

(***************************************************************************)
(* Strings: sequences of one-character strings.                            *)
(***************************************************************************)
UpperChars == <<"A", "B", "C", "G", "S", "U",
                "Systematic review", "Non-RCT experimental", "Case report">>
LowerChars == <<"a", "b", "c", "g", "s", "u",
                "systematic review", "non-rct experimental", "case report">>

ToLowerChar(c) ==
  IF \E i \in 1..Len(UpperChars) : UpperChars[i] = c
    THEN LowerChars[CHOOSE i \in 1..Len(UpperChars) : UpperChars[i] = c]
    ELSE c

\* String.prototype.toLowerCase
toLowerCase(s) == [i \in 1..Len(s) |-> ToLowerChar(s[i])]

\* String.prototype.includes
includes(s, t) ==
  \E i \in 0..(Len(s) - Len(t)) : SubSeq(s, i + 1, i + Len(t)) = t

\* String.prototype.trim
RECURSIVE trimStart(_)
trimStart(s) ==
  IF s # << >> /\ Head(s) = " " THEN trimStart(Tail(s)) ELSE s

RECURSIVE trimEnd(_)
trimEnd(s) ==
  IF s # << >> /\ s[Len(s)] = " " THEN trimEnd(SubSeq(s, 1, Len(s) - 1)) ELSE s

trim(s) == trimEnd(trimStart(s))

\* a string in a boolean context: the empty string is falsy
Truthy(s) == s # << >>

(***************************************************************************)
(* JavaScript numbers as the filters see them: a number, null, undefined   *)
(* (a field read through ?. on a missing object) or NaN.                   *)
(***************************************************************************)
Num(n) == [kind |-> "num", v |-> n]
Null == [kind |-> "null", v |-> 0]
Undefined == [kind |-> "undefined", v |-> 0]
NaN == [kind |-> "NaN", v |-> 0]

\* ToNumber: null is 0, undefined is NaN
ToNumber(x) ==
  CASE x.kind = "null" -> Num(0)
    [] x.kind = "undefined" -> NaN
    [] OTHER -> x

\* a <= b and a >= b: false as soon as one side is NaN
JsLe(a, b) ==
  ToNumber(a).kind = "num" /\ ToNumber(b).kind = "num" /\ ToNumber(a).v <= ToNumber(b).v
JsGe(a, b) ==
  ToNumber(a).kind = "num" /\ ToNumber(b).kind = "num" /\ ToNumber(a).v >= ToNumber(b).v
JsLt(a, b) ==
  ToNumber(a).kind = "num" /\ ToNumber(b).kind = "num" /\ ToNumber(a).v < ToNumber(b).v

\* Math.abs
Abs(x) ==
  LET n == ToNumber(x)
  IN IF n.kind = "num" THEN Num(IF n.v < 0 THEN -n.v ELSE n.v) ELSE NaN

\* v !== null && v !== undefined
NotNullish(x) == x.kind \notin {"null", "undefined"}

(***************************************************************************)
(* The gene document (assets/data/gene-master-index.json) and the          *)
(* Normalizer.  Fields no filter, sorter or paginator reads (baseMean,     *)
(* aveExpr, significant) are left out.                                     *)
(***************************************************************************)
NoRawRnaseq == [present |-> FALSE, log2fc |-> Undefined, padj |-> Undefined,
                regulation |-> "undefined"]
NoRawSpatial == [present |-> FALSE, logFC |-> Undefined, adj_p_val |-> Undefined,
                 regulation |-> "undefined"]
RawRnaseq(fc, p, reg) == [present |-> TRUE, log2fc |-> fc, padj |-> p, regulation |-> reg]
RawSpatial(fc, p, reg) == [present |-> TRUE, logFC |-> fc, adj_p_val |-> p, regulation |-> reg]

RawGene(primary, sym, name, ens, rna, p15, p30, seizure, isSeizure) ==
  [primary_symbol |-> primary, symbol |-> sym, name |-> name, ensembl_id |-> ens,
   datasets |-> [rnaseq |-> rna, spatial_p15 |-> p15, spatial_p30 |-> p30],
   seizure_gene |-> seizure, is_seizure_gene |-> isSeizure]

\* A normalized observation that is null
NoObs == [present |-> FALSE, log2fc |-> Undefined, adj_p_val |-> Undefined,
          regulation |-> "undefined"]

normalizeGeneData(raw) ==
  [symbol |-> IF Truthy(raw.primary_symbol) THEN raw.primary_symbol
              ELSE IF Truthy(raw.symbol) THEN raw.symbol
              ELSE <<"U", "n", "k", "n", "o", "w", "n">>,
   name |-> raw.name,
   ensembl_id |-> raw.ensembl_id,
   bulk_rnaseq |->
     IF raw.datasets.rnaseq.present
       THEN [present |-> TRUE,
             log2fc |-> raw.datasets.rnaseq.log2fc,
             adj_p_val |-> raw.datasets.rnaseq.padj,
             regulation |-> raw.datasets.rnaseq.regulation]
       ELSE NoObs,
   spatial_p15 |->
     IF raw.datasets.spatial_p15.present
       THEN [present |-> TRUE,
             log2fc |-> raw.datasets.spatial_p15.logFC,
             adj_p_val |-> raw.datasets.spatial_p15.adj_p_val,
             regulation |-> raw.datasets.spatial_p15.regulation]
       ELSE NoObs,
   spatial_p30 |->
     IF raw.datasets.spatial_p30.present
       THEN [present |-> TRUE,
             log2fc |-> raw.datasets.spatial_p30.logFC,
             adj_p_val |-> raw.datasets.spatial_p30.adj_p_val,
             regulation |-> raw.datasets.spatial_p30.regulation]
       ELSE NoObs,
   seizure_gene |-> raw.seizure_gene]

\* The raw gene records a document is drawn from: a spatial-P15 gene
\* flagged seizure_gene; a gene whose bulk and P15 observations disagree; a
\* gene without symbol whose P30 values are null (NA in the source table); a
\* gene the index builder added from the seizure list alone
\* (is_seizure_gene, no observation).
RawGenes ==
  << RawGene(<<"C", "a">>, << >>, <<"a", "b">>, <<"e", "1">>,
             NoRawRnaseq, RawSpatial(Num(-30), Num(1), "down"), NoRawSpatial, TRUE, FALSE),
     RawGene(<<"G", "r">>, << >>, <<"c", "a">>, <<"e", "2">>,
             RawRnaseq(Num(5), Num(40), "up"), RawSpatial(Num(-15), Num(200), "down"),
             NoRawSpatial, FALSE, FALSE),
     RawGene(<< >>, << >>, << >>, <<"e", "3">>,
             NoRawRnaseq, NoRawSpatial, RawSpatial(Null, Null, "up"), FALSE, FALSE),
     RawGene(<<"S", "c">>, << >>, << >>, << >>,
             NoRawRnaseq, NoRawSpatial, NoRawSpatial, FALSE, TRUE) >>

\* The records of cat at the positions in S, in the order of cat
RECURSIVE Pick(_, _)
Pick(cat, S) ==
  IF S = {} THEN << >>
  ELSE LET last == CHOOSE m \in S : \A k \in S : k <= m
       IN Append(Pick(cat, S \ {last}), cat[last])

\* The documents of at most n records drawn from cat
DocumentsUpTo(cat, n) ==
  {Pick(cat, S) : S \in {T \in SUBSET (1..Len(cat)) : Cardinality(T) <= n}}

(***************************************************************************)
(* The heap of arrays the engines, the Paginator and the TableSorter       *)
(* share by reference.                                                     *)
(***************************************************************************)
NumRefs == 3
Refs == 1..NumRefs
EmptyHeap == [r \in Refs |-> << >>]

\* The reference a newly created array gets: the first one that no field
\* listed in keep still holds once the statement has run
FreshRef(keep) == CHOOSE r \in Refs : r \notin keep /\ \A q \in Refs \ keep : r <= q

\* Arrays no field refers to any more are dropped
Collect(h, live) == [r \in Refs |-> IF r \in live THEN h[r] ELSE << >>]

\* The reference that [...a] evaluates to: a new array, never a itself
SpreadRef_Alias(a, fresh) == a
SpreadRef(a, fresh) == fresh

ItemsPerPageDefault == 25
PerPageOptions == {25, 50, 100, 250}

(***************************************************************************)
(* GeneSearchEngine (gene-search.js): the filters.                         *)
(***************************************************************************)
PValueOne == 1000     \* 1.0 in thousandths

DefaultGeneFilters ==
  [regulation |-> "all",
   datasets |-> [bulk_rnaseq |-> TRUE, spatial_p15 |-> TRUE, spatial_p30 |-> TRUE,
                 seizure_gene |-> TRUE],
   pvalueThreshold |-> Num(PValueOne),
   log2fcMin |-> Null,
   log2fcMax |-> Null]

\* an engine whose handlers are bound by the constructor
NewGeneSearchEngine_Bound ==
  [loaded |-> TRUE, allGenes |-> 1, filteredGenes |-> 2,
   currentSearchTerm |-> << >>, filters |-> DefaultGeneFilters, isLoading |-> FALSE]

NewGeneSearchEngine ==
  [loaded |-> FALSE, allGenes |-> 1, filteredGenes |-> 2,
   currentSearchTerm |-> << >>, filters |-> DefaultGeneFilters, isLoading |-> FALSE]

\* 1. Search term filter
matchesSearch(g, searchLower) ==
  \/ Truthy(g.symbol) /\ includes(toLowerCase(g.symbol), searchLower)
  \/ Truthy(g.name) /\ includes(toLowerCase(g.name), searchLower)
  \/ Truthy(g.ensembl_id) /\ includes(toLowerCase(g.ensembl_id), searchLower)

filterBySearch_Unshift(results, e, objs) ==
  IF Truthy(e.currentSearchTerm)
    THEN LET kept == SelectSeq(results,
                       LAMBDA i : matchesSearch(objs[i], toLowerCase(e.currentSearchTerm)))
         IN [i \in 1..Len(kept) |-> kept[Len(kept) + 1 - i]]
    ELSE results

filterBySearch(results, e, objs) ==
  IF Truthy(e.currentSearchTerm)
    THEN SelectSeq(results, LAMBDA i : matchesSearch(objs[i], toLowerCase(e.currentSearchTerm)))
    ELSE results

\* 2. Regulation filter
hasRegulation(g, f) ==
  \/ f.datasets.bulk_rnaseq /\ g.bulk_rnaseq.regulation = f.regulation
  \/ f.datasets.spatial_p15 /\ g.spatial_p15.regulation = f.regulation
  \/ f.datasets.spatial_p30 /\ g.spatial_p30.regulation = f.regulation

filterByRegulation(results, e, objs) ==
  IF e.filters.regulation # "all"
    THEN SelectSeq(results, LAMBDA i : hasRegulation(objs[i], e.filters))
    ELSE results

\* 3. Dataset filter
DatasetKeys == <<"bulk_rnaseq", "spatial_p15", "spatial_p30", "seizure_gene">>

activeDatasets(f) == SelectSeq(DatasetKeys, LAMBDA ds : f.datasets[ds])

inActiveDataset_NoSeizureCase(g, active) ==
  \E i \in 1..Len(active) :
    IF active[i] = "seizure_gene" THEN TRUE ELSE g[active[i]].present

inActiveDataset(g, active) ==
  \E i \in 1..Len(active) :
    IF active[i] = "seizure_gene" THEN g.seizure_gene = TRUE ELSE g[active[i]].present

filterByDataset(results, e, objs) ==
  LET active == activeDatasets(e.filters)
  IN IF Len(active) > 0 /\ Len(active) < 4
       THEN SelectSeq(results, LAMBDA i : inActiveDataset(objs[i], active))
       ELSE results

\* 4. P-value threshold filter
hasSignificantPvalue_Every(g, f) ==
  /\ f.datasets.bulk_rnaseq => JsLe(g.bulk_rnaseq.adj_p_val, f.pvalueThreshold)
  /\ f.datasets.spatial_p15 => JsLe(g.spatial_p15.adj_p_val, f.pvalueThreshold)
  /\ f.datasets.spatial_p30 => JsLe(g.spatial_p30.adj_p_val, f.pvalueThreshold)

hasSignificantPvalue(g, f) ==
  \/ f.datasets.bulk_rnaseq /\ JsLe(g.bulk_rnaseq.adj_p_val, f.pvalueThreshold)
  \/ f.datasets.spatial_p15 /\ JsLe(g.spatial_p15.adj_p_val, f.pvalueThreshold)
  \/ f.datasets.spatial_p30 /\ JsLe(g.spatial_p30.adj_p_val, f.pvalueThreshold)

filterByPvalue(results, e, objs) ==
  IF JsLt(e.filters.pvalueThreshold, Num(PValueOne))
    THEN SelectSeq(results, LAMBDA i : hasSignificantPvalue(objs[i], e.filters))
    ELSE results

\* 5. Log2FC range filter
log2fcValues(g) ==
  SelectSeq(<<g.bulk_rnaseq.log2fc, g.spatial_p15.log2fc, g.spatial_p30.log2fc>>,
            NotNullish)

passesLog2fc(g, f) ==
  LET values == log2fcValues(g)
  IN \E i \in 1..Len(values) :
       LET absFc == Abs(values[i])
           passesMin == f.log2fcMin.kind = "null" \/ JsGe(absFc, f.log2fcMin)
           passesMax == f.log2fcMax.kind = "null" \/ JsLe(absFc, f.log2fcMax)
       IN passesMin /\ passesMax

filterByLog2fc(results, e, objs) ==
  IF e.filters.log2fcMin.kind # "null" \/ e.filters.log2fcMax.kind # "null"
    THEN SelectSeq(results, LAMBDA i : passesLog2fc(objs[i], e.filters))
    ELSE results

\* The i-th filter of applyFilters
GeneStep(k, results, e, objs) ==
  CASE k = 1 -> filterBySearch(results, e, objs)
    [] k = 2 -> filterByRegulation(results, e, objs)
    [] k = 3 -> filterByDataset(results, e, objs)
    [] k = 4 -> filterByPvalue(results, e, objs)
    [] OTHER -> filterByLog2fc(results, e, objs)

\* The filters applied to a copy of allGenes in the order given
RECURSIVE GeneSteps(_, _, _, _)
GeneSteps(order, results, e, objs) ==
  IF order = << >> THEN results
  ELSE GeneSteps(Tail(order), GeneStep(Head(order), results, e, objs), e, objs)

\* applyFilters, up to "Update filtered results": the value of results
geneResults(allGenes, e, objs) == GeneSteps(<<1, 2, 3, 4, 5>>, allGenes, e, objs)

(***************************************************************************)
(* TableSorter (utils.js).                                                 *)
(***************************************************************************)
NewTableSorter(data) == [data |-> data, sortColumn |-> "null", sortDirection |-> "asc"]

\* The columns that hold numbers (or null); every other column holds strings
NumberColumns == {"year", "citations"}

\* Number.prototype.toString for n >= 0
RECURSIVE DigitsOf(_)
DigitsOf(n) ==
  LET digit == <<"0", "1", "2", "3", "4", "5", "6", "7", "8", "9">>[(n % 10) + 1]
  IN IF n < 10 THEN <<digit>> ELSE Append(DigitsOf(n \div 10), digit)

\* The order localeCompare gives the characters in use
Collation ==
  <<" ", "(", "*", "[", "0", "1", "2", "3", "4", "5", "6", "7", "8", "9",
    "a", "b", "c", "e", "g", "k", "n", "o", "r", "s", "u", "w">>

CharRank(c) == CHOOSE i \in 1..Len(Collation) : Collation[i] = c

\* String.prototype.localeCompare on lower-cased strings: -1, 0 or 1
RECURSIVE localeCompare(_, _)
localeCompare(s, t) ==
  CASE s = << >> /\ t = << >> -> 0
    [] s = << >> -> -1
    [] t = << >> -> 1
    [] CharRank(Head(s)) < CharRank(Head(t)) -> -1
    [] CharRank(Head(s)) > CharRank(Head(t)) -> 1
    [] OTHER -> localeCompare(Tail(s), Tail(t))

\* String(value).toLowerCase() of a column value
SortString(column, value) ==
  IF column \in NumberColumns THEN DigitsOf(value.v) ELSE toLowerCase(value)

\* value === null || value === undefined
SortNullish(column, value) ==
  column \in NumberColumns /\ value.kind \in {"null", "undefined"}

\* "Determine data type if auto": typeof of the first record's value
sortType(data, objs, column, type) ==
  IF type = "auto" /\ Len(data) > 0
    THEN IF column \in NumberColumns /\ objs[data[1]][column].kind = "num"
           THEN "number" ELSE "string"
    ELSE type

Sign(n) == IF n < 0 THEN -1 ELSE IF n > 0 THEN 1 ELSE 0

\* parseFloat(valueA) - parseFloat(valueB); NaN (a string that is no number)
\* makes the difference NaN, which sort takes as 0
NumberDiff(column, valueA, valueB) ==
  IF column \in NumberColumns THEN Sign(valueA.v - valueB.v) ELSE 0

\* a comparator that puts null and undefined first
compare_NullsFirst(a, b, column, type, direction) ==
  IF SortNullish(column, a[column]) THEN -1
  ELSE IF SortNullish(column, b[column]) THEN 1
  ELSE 0

\* The comparator handed to Array.prototype.sort
compare(a, b, column, type, direction) ==
  LET valueA == a[column]
      valueB == b[column]
  IN IF SortNullish(column, valueA) THEN 1
     ELSE IF SortNullish(column, valueB) THEN -1
     ELSE IF type = "number"
       THEN IF direction = "asc" THEN NumberDiff(column, valueA, valueB)
            ELSE NumberDiff(column, valueB, valueA)
       ELSE IF direction = "asc"
              THEN localeCompare(SortString(column, valueA), SortString(column, valueB))
              ELSE localeCompare(SortString(column, valueB), SortString(column, valueA))

IndexOrders(n) == {p \in [1..n -> 1..n] : \A i, j \in 1..n : p[i] = p[j] => i = j}

\* Array.prototype.sort is stable and orders by the comparator; where the
\* comparator contradicts itself (it answers 1 both ways for two null
\* values) the order of the two is the engine's choice.
sortOutcomes(data, objs, column, type, direction) ==
  LET n == Len(data)
      cmp(i, j) == compare(objs[data[i]], objs[data[j]], column, type, direction)
      inOrder(i, j) ==
        IF cmp(i, j) > 0 /\ cmp(j, i) > 0 THEN TRUE
        ELSE IF cmp(i, j) = 0 THEN i < j
        ELSE cmp(i, j) < 0
  IN {[k \in 1..n |-> data[p[k]]] :
        p \in {q \in IndexOrders(n) :
                 \A k, l \in 1..n : k < l => inOrder(q[k], q[l])}}

\* sort without the toggle: every call leaves the column ascending
sortHeader_NoToggle(s, column) == [s EXCEPT !.sortColumn = column, !.sortDirection = "asc"]

\* sort(column, type), up to the sort itself: the direction toggles on the
\* same column and resets to ascending on another one
sortHeader(s, column) ==
  IF s.sortColumn = column
    THEN [s EXCEPT !.sortDirection = IF s.sortDirection = "asc" THEN "desc" ELSE "asc"]
    ELSE [s EXCEPT !.sortColumn = column, !.sortDirection = "asc"]

(***************************************************************************)
(* The exporters: exportToCSV (utils.js) behind                            *)
(* GeneSearchEngine.exportResults, and PublicationsEngine.exportToCSV.     *)
(* Log2FC values are kept in tenths, p-values in units of 1 / PValueOne.    *)
(***************************************************************************)
Comma == ","
Quote == "\""
Newline == "\n"

\* The value of a cell: a string, or a number in units of 1/unit, or null /
\* undefined
StrCell(s) == [kind |-> "str", v |-> s, unit |-> 1]
NumCell(x, unit) == [kind |-> x.kind, v |-> x.v, unit |-> unit]
UndefinedCell == NumCell(Undefined, 1)

\* The digits after the decimal point, without trailing zeros
RECURSIVE FractionDigits(_, _)
FractionDigits(f, unit) ==
  IF f = 0 THEN << >>
  ELSE DigitsOf(f \div (unit \div 10)) \o FractionDigits(f % (unit \div 10), unit \div 10)

\* String(value)
String(cell) ==
  CASE cell.kind = "str" -> cell.v
    [] cell.kind = "num" ->
         LET a == IF cell.v < 0 THEN -cell.v ELSE cell.v
         IN (IF cell.v < 0 THEN <<"-">> ELSE << >>)
            \o DigitsOf(a \div cell.unit)
            \o (IF a % cell.unit = 0 THEN << >>
                ELSE <<".">> \o FractionDigits(a % cell.unit, cell.unit))
    [] OTHER -> <<cell.kind>>

\* value || '': null, undefined, NaN, 0 and the empty string give ''
OrEmpty(cell) ==
  IF cell.kind \in {"null", "undefined", "NaN"} \/ (cell.kind = "num" /\ cell.v = 0)
    THEN StrCell(<< >>)
    ELSE cell

\* stringValue.replace(/"/g, '""')
RECURSIVE doubleQuotes(_)
doubleQuotes(s) ==
  IF s = << >> THEN << >>
  ELSE (IF Head(s) = Quote THEN <<Quote, Quote>> ELSE <<Head(s)>>) \o doubleQuotes(Tail(s))

\* Wrap in quotes if the string contains a comma, a quote or a newline
quoteField(s) ==
  IF includes(s, <<Comma>>) \/ includes(s, <<Quote>>) \/ includes(s, <<Newline>>)
    THEN <<Quote>> \o doubleQuotes(s) \o <<Quote>>
    ELSE s

\* Array.prototype.join on strings
RECURSIVE join(_, _)
join(strings, separator) ==
  IF strings = << >> THEN << >>
  ELSE IF Len(strings) = 1 THEN strings[1]
  ELSE strings[1] \o <<separator>> \o join(Tail(strings), separator)

\* an export without the header row
exportToCSV_NoHeader(rows, headers) ==
  [made |-> TRUE, text |-> join([k \in 1..Len(rows) |-> << >>], Newline)]

\* exportToCSV(data, filename, columns) of utils.js: rows holds, for every
\* record, the values row[col.key] in column order
exportToCSV(rows, headers) ==
  IF Len(rows) = 0 THEN NoDownload
  ELSE [made |-> TRUE,
        text |-> join(<<join(headers, Comma)>>
                        \o [k \in 1..Len(rows) |->
                              join([c \in 1..Len(rows[k]) |->
                                      IF rows[k][c].kind \in {"null", "undefined"}
                                        THEN << >>
                                        ELSE quoteField(String(rows[k][c]))],
                                   Comma)],
                      Newline)]

GeneCsvHeaders ==
  << <<"Gene Symbol">>, <<"Gene Name">>, <<"Ensembl ID">>, <<"Chromosome">>,
     <<"Seizure Gene">>, <<"Bulk Regulation">>, <<"Bulk Log2FC">>, <<"Bulk Adj.P">>,
     <<"P15 Regulation">>, <<"P15 Log2FC">>, <<"P15 Adj.P">>,
     <<"P30 Regulation">>, <<"P30 Log2FC">>, <<"P30 Adj.P">> >>

\* The three cells of a dataset in an export row: absent keys read undefined
ObservationCells(obs) ==
  IF obs.present
    THEN <<StrCell(<<obs.regulation>>), NumCell(obs.log2fc, 10),
           NumCell(obs.adj_p_val, PValueOne)>>
    ELSE <<UndefinedCell, UndefinedCell, UndefinedCell>>

\* The row exportResults builds for a gene, in column order; the normalizer
\* sets no chromosome
GeneExportRow(g) ==
  <<StrCell(g.symbol), StrCell(g.name), StrCell(g.ensembl_id), StrCell(<< >>),
    StrCell(IF g.seizure_gene THEN <<"Yes">> ELSE <<"No">>)>>
  \o ObservationCells(g.bulk_rnaseq) \o ObservationCells(g.spatial_p15)
  \o ObservationCells(g.spatial_p30)

\* GeneSearchEngine.exportResults: nothing is exported from an empty view
exportResults(filteredGenes, objs) ==
  IF Len(filteredGenes) = 0 THEN NoDownload
  ELSE exportToCSV([k \in 1..Len(filteredGenes) |-> GeneExportRow(objs[filteredGenes[k]])],
                   GeneCsvHeaders)

PublicationCsvHeaders ==
  << <<"Title">>, <<"Authors">>, <<"Year">>, <<"Journal">>, <<"Journal SJR Quartile">>,
     <<"Citations">>, <<"Study Type">>, <<"Takeaway">>, <<"Abstract">>, <<"DOI">>,
     <<"Consensus Link">> >>

PublicationExportRow(pb) ==
  <<StrCell(pb.title), StrCell(pb.authors), NumCell(pb.year, 1), StrCell(pb.journal),
    StrCell(pb.sjr_quartile), NumCell(pb.citations, 1), StrCell(pb.study_type),
    StrCell(pb.takeaway), StrCell(pb.abstract), StrCell(pb.doi),
    StrCell(pb.consensus_link)>>

\* PublicationsEngine.exportToCSV: every cell is String(cell || '')
publicationsToCSV(filteredPublications, objs) ==
  [made |-> TRUE,
   text |-> join(<<join(PublicationCsvHeaders, Comma)>>
                   \o [k \in 1..Len(filteredPublications) |->
                         join([c \in 1..Len(PublicationCsvHeaders) |->
                                 quoteField(String(OrEmpty(
                                   PublicationExportRow(objs[filteredPublications[k]])[c])))],
                              Comma)],
                 Newline)]

(***************************************************************************)
(* GeneSearchEngine: initialize, applyFilters, resetFilters, the handlers  *)
(* bound by bindEventHandlers.                                             *)
(***************************************************************************)
MaxGenes == 3       \* most genes in a loaded document

GeneDocuments == DocumentsUpTo(RawGenes, MaxGenes)

\* What the user can type into the search box
SearchInputs == {<< >>, <<" ">>, <<"C", "A">>}
\* What parseFloat makes of the text of a numeric filter field
PvalueInputs == {NaN, Num(50), Num(PValueOne)}
Log2fcMinInputs == {NaN, Num(10)}
Log2fcMaxInputs == {NaN, Num(20)}

\* updateResultsCount
updateResultsCount(filtered, total) == [filtered |-> filtered, total |-> total]

\* The array of references to the records of a document of n records
RecordRefs(n) == [i \in 1..n |-> i]

\* initialize, when the fetch resolved with a document
GeneInitialize(doc) ==
  /\ mode = "gene"
  /\ ~gene.loaded
  /\ load.status = "loading" /\ load.response \in {"ok", "not ok"}
  /\ \E allGenes \in {FreshRef({})} :
     \E filteredGenes \in {SpreadRef(allGenes, FreshRef({allGenes}))} :
     \E h \in {[[EmptyHeap EXCEPT ![allGenes] = RecordRefs(Len(doc))]
                  EXCEPT ![filteredGenes] = RecordRefs(Len(doc))]} :
     \E p \in {onPageChange(NewPaginator(filteredGenes, ItemsPerPageDefault))} :
        /\ gene' = [gene EXCEPT !.loaded = TRUE, !.allGenes = allGenes,
                                !.filteredGenes = filteredGenes, !.isLoading = FALSE]
        /\ objects' = [i \in 1..Len(doc) |-> normalizeGeneData(doc[i])]
        /\ heap' = Collect(h, {allGenes, filteredGenes})
        /\ paginator' = p
        /\ sorter' = NewTableSorter(filteredGenes)
        /\ resultsCount' = updateResultsCount(Len(h[filteredGenes]), Len(h[allGenes]))
        /\ controls' = updateControls(p, h)
        /\ rendered' = getCurrentPageData(p, h)
        /\ lastOp' = Op("initialize", 0, 1, TRUE)
  /\ load' = [load EXCEPT !.status = "content"]
  /\ download' = NoDownload
  /\ UNCHANGED <<mode, charts, index, debounced, pub>>

\* What lastOp keeps of the filtered array an operation replaced: a reset
\* keeps how many records were shown before it
ShownBefore(op, filtered) == IF op = "resetFilters" THEN Len(filtered) ELSE 0

\* new RegExp(pattern): whether the pattern compiles.  The part of the
\* pattern syntax that the characters of the model's search terms reach: a
\* group is closed, a character class is terminated, ")" closes a group that
\* is open, and "*" follows something it can repeat.  Inside a class every
\* character is literal; outside, "]" is.
RECURSIVE RegExpScan(_, _, _, _, _)
RegExpScan(pattern, i, depth, inClass, atom) ==
  IF i > Len(pattern) THEN ~inClass /\ depth = 0
  ELSE IF inClass
    THEN IF pattern[i] = "]" THEN RegExpScan(pattern, i + 1, depth, FALSE, TRUE)
         ELSE RegExpScan(pattern, i + 1, depth, TRUE, atom)
  ELSE IF pattern[i] = "[" THEN RegExpScan(pattern, i + 1, depth, TRUE, atom)
  ELSE IF pattern[i] = "(" THEN RegExpScan(pattern, i + 1, depth + 1, FALSE, FALSE)
  ELSE IF pattern[i] = ")" THEN depth > 0 /\ RegExpScan(pattern, i + 1, depth - 1, FALSE, TRUE)
  ELSE IF pattern[i] = "*" THEN atom /\ RegExpScan(pattern, i + 1, depth, FALSE, FALSE)
  ELSE RegExpScan(pattern, i + 1, depth, FALSE, TRUE)

RegExpCompiles(pattern) == RegExpScan(pattern, 1, 0, FALSE, FALSE)

\* highlightText(text, searchTerm) throws a SyntaxError: it builds
\* new RegExp(`(${searchTerm})`, 'gi') unless the term or the text is empty
highlightTextThrows(text, searchTerm) ==
  /\ Truthy(searchTerm) /\ Truthy(text)
  /\ ~RegExpCompiles(<<"(">> \o searchTerm \o <<")">>)

\* renderResults(genes) throws: it highlights the symbol and the name of
\* every gene of the page when a search term is set
renderResultsThrows(genes, objs, searchTerm) ==
  /\ Truthy(searchTerm)
  /\ \E k \in 1..Len(genes) :
       \/ highlightTextThrows(objs[genes[k]].symbol, searchTerm)
       \/ highlightTextThrows(objs[genes[k]].name, searchTerm)

\* applyFilters run on the engine fields e (the handler has already stored
\* its input in them): every field and display it writes.  When the render
\* callback throws, the exception leaves updateData and applyFilters: the
\* table keeps its rows and the sorter keeps the array it had.  (A sort or a
\* page change renders with the same term; in the specifications that have
\* them no search term is one that fails to compile.)
GeneFilterCycle(e, op) ==
  \E value \in {geneResults(heap[e.allGenes], e, objects)} :
  \E thrown \in {/\ paginator.renderCallback
                  /\ renderResultsThrows(Slice(value, 0, paginator.itemsPerPage), objects,
                                         e.currentSearchTerm)} :
  \E stale \in {IF thrown THEN {sorter.data} ELSE {}} :
  \E results \in {SpreadRef(e.allGenes, FreshRef({e.allGenes} \cup stale))} :
  \E h \in {[heap EXCEPT ![results] = value]} :
  \E out \in {updateData(paginator, h, rendered, results)} :
     /\ gene' = [e EXCEPT !.filteredGenes = results]
     /\ heap' = Collect(h, {e.allGenes, results} \cup stale)
     /\ resultsCount' = updateResultsCount(Len(value), Len(h[e.allGenes]))
     /\ paginator' = out.paginator
     /\ controls' = out.controls
     /\ rendered' = IF thrown THEN rendered ELSE out.rendered
     /\ sorter' = IF thrown THEN sorter ELSE [sorter EXCEPT !.data = results]
     /\ lastOp' = Op(IF thrown THEN "SyntaxError" ELSE op,
                     ShownBefore(op, heap[gene.filteredGenes]), paginator.currentPage,
                     out.called)
     /\ download' = NoDownload
  /\ UNCHANGED <<mode, charts, index, load, objects, pub>>

\* applyFilters called by a handler that touches no input element
GeneApplyFilters(e, op) == GeneFilterCycle(e, op) /\ UNCHANGED debounced

GeneFilters(f) == [gene EXCEPT !.filters = f]

\* the search box's handler, once its debounce timer fires
GeneSearchInput(text) ==
  /\ mode = "gene" /\ gene.loaded
  /\ GeneApplyFilters([gene EXCEPT !.currentSearchTerm = trim(text)], "applyFilters")

GeneClearSearch ==
  /\ mode = "gene" /\ gene.loaded
  /\ GeneApplyFilters([gene EXCEPT !.currentSearchTerm = << >>], "applyFilters")

GeneRegulationChange(value) ==
  /\ mode = "gene" /\ gene.loaded
  /\ GeneApplyFilters(GeneFilters([gene.filters EXCEPT !.regulation = value]),
                      "applyFilters")

GeneDatasetChange(dataset, checked) ==
  /\ mode = "gene" /\ gene.loaded
  /\ GeneApplyFilters(GeneFilters([gene.filters EXCEPT !.datasets[dataset] = checked]),
                      "applyFilters")

GenePvalueInput(value) ==
  /\ mode = "gene" /\ gene.loaded
  /\ GeneApplyFilters(
       GeneFilters([gene.filters EXCEPT
                      !.pvalueThreshold = IF value.kind = "NaN" THEN Num(PValueOne)
                                          ELSE value]),
       "applyFilters")

GeneLog2fcMinInput(value) ==
  /\ mode = "gene" /\ gene.loaded
  /\ GeneApplyFilters(
       GeneFilters([gene.filters EXCEPT
                      !.log2fcMin = IF value.kind = "NaN" THEN Null ELSE value]),
       "applyFilters")

GeneLog2fcMaxInput(value) ==
  /\ mode = "gene" /\ gene.loaded
  /\ GeneApplyFilters(
       GeneFilters([gene.filters EXCEPT
                      !.log2fcMax = IF value.kind = "NaN" THEN Null ELSE value]),
       "applyFilters")

resetFilters_KeepDatasets(e) ==
  [e EXCEPT !.currentSearchTerm = << >>,
            !.filters = [DefaultGeneFilters EXCEPT !.datasets = e.filters.datasets]]

\* resetFilters, up to its call of applyFilters
resetFilters(e) ==
  [e EXCEPT !.currentSearchTerm = << >>, !.filters = DefaultGeneFilters]

GeneResetFilters ==
  /\ mode = "gene" /\ gene.loaded
  /\ GeneApplyFilters(resetFilters(gene), "resetFilters")

\* exportResults reads filteredGenes, writes no field and hands the file to
\* the browser
GeneExportResults ==
  /\ mode = "gene" /\ gene.loaded
  /\ lastOp' = Op("exportResults", Len(heap[gene.filteredGenes]),
                  paginator.currentPage, FALSE)
  /\ download' = exportResults(heap[gene.filteredGenes], objects)
  /\ UNCHANGED <<mode, charts, index,
                 load, debounced, heap, objects, gene, pub, paginator, sorter, controls,
                 rendered,
                 resultsCount>>

\* A click on a sortable header: TableSorter.sort, whose render callback
\* hands the sorted array to paginator.updateData
GeneSortableHeaders == {<<"symbol", "auto">>, <<"name", "auto">>}

GeneSort(column, type) ==
  /\ mode = "gene" /\ gene.loaded
  /\ \E s \in {sortHeader(sorter, column)} :
     \E data \in {heap[s.data]} :
     \E sorted \in sortOutcomes(data, objects, column,
                                sortType(data, objects, column, type), s.sortDirection) :
     \E h \in {[heap EXCEPT ![s.data] = sorted]} :
     \E out \in {updateData(paginator, h, rendered, s.data)} :
        /\ sorter' = s
        /\ heap' = h
        /\ paginator' = out.paginator
        /\ controls' = out.controls
        /\ rendered' = out.rendered
        /\ lastOp' = Op("sort", 0, paginator.currentPage, out.called)
  /\ download' = NoDownload
  /\ UNCHANGED <<mode, charts, index, load, debounced, objects, gene, pub, resultsCount>>

(***************************************************************************)
(* PublicationsEngine (publications.js).  The fields no filter or sorter   *)
(* reads (doi, consensus_link) are empty unless a record sets them.        *)
(***************************************************************************)
Publication(id, title, authors, year, citations, abstract, type, journal, quartile, takeaway) ==
  [id |-> id, title |-> title, authors |-> authors, year |-> year,
   citations |-> citations, abstract |-> abstract, study_type |-> type,
   journal |-> journal, sjr_quartile |-> quartile, takeaway |-> takeaway,
   doi |-> << >>, consensus_link |-> << >>]

\* The publications a document is drawn from: a ranked review; a record
\* without year, journal, quartile or study type; a recent study of a type
\* outside the known ones.
Publications ==
  << Publication(1, <<"a", "b">>, <<"c">>, Num(1990), Num(5), << >>,
                 <<"Systematic review">>, <<"C", "a">>, <<"Q1">>, << >>),
     Publication(2, <<"C", "a">>, << >>, Null, Num(0), <<"g">>,
                 << >>, << >>, << >>, << >>),
     Publication(3, <<"g">>, <<"a">>, Num(2005), Num(12), << >>,
                 <<"Case report">>, <<"c", "a", "b">>, <<"Q2">>, <<"b", "c">>) >>

MaxPublications == 3     \* most publications in a loaded document

PublicationDocuments == DocumentsUpTo(Publications, MaxPublications)

DefaultPublicationFilters ==
  [yearMin |-> Null, yearMax |-> Null, quartile |-> <<"all">>,
   studyType |-> <<"all">>, citationMin |-> Null, journal |-> << >>]

NewPublicationsEngine ==
  [loaded |-> FALSE, allPublications |-> 1, filteredPublications |-> 2,
   currentSearchTerm |-> << >>, filters |-> DefaultPublicationFilters]

knownTypes ==
  {<<"non-rct experimental">>, <<"systematic review">>, <<"non-rct observational study">>}

matchesPublicationSearch(pb, term) ==
  \/ Truthy(pb.title) /\ includes(toLowerCase(pb.title), term)
  \/ Truthy(pb.authors) /\ includes(toLowerCase(pb.authors), term)
  \/ Truthy(pb.abstract) /\ includes(toLowerCase(pb.abstract), term)
  \/ Truthy(pb.journal) /\ includes(toLowerCase(pb.journal), term)
  \/ Truthy(pb.takeaway) /\ includes(toLowerCase(pb.takeaway), term)

filterByText(filtered, e, objs) ==
  IF Truthy(e.currentSearchTerm)
    THEN SelectSeq(filtered,
           LAMBDA i : matchesPublicationSearch(objs[i], toLowerCase(e.currentSearchTerm)))
    ELSE filtered

filterByYearMin(filtered, e, objs) ==
  IF e.filters.yearMin.kind # "null"
    THEN SelectSeq(filtered, LAMBDA i : JsGe(objs[i].year, e.filters.yearMin))
    ELSE filtered

filterByYearMax(filtered, e, objs) ==
  IF e.filters.yearMax.kind # "null"
    THEN SelectSeq(filtered, LAMBDA i : JsLe(objs[i].year, e.filters.yearMax))
    ELSE filtered

filterByQuartile(filtered, e, objs) ==
  IF e.filters.quartile # <<"all">>
    THEN IF e.filters.quartile = <<"unranked">>
           THEN SelectSeq(filtered, LAMBDA i : ~Truthy(objs[i].sjr_quartile))
           ELSE SelectSeq(filtered, LAMBDA i : objs[i].sjr_quartile = e.filters.quartile)
    ELSE filtered

filterByStudyType(filtered, e, objs) ==
  IF e.filters.studyType # <<"all">>
    THEN IF e.filters.studyType = <<"other">>
           THEN SelectSeq(filtered,
                  LAMBDA i : ~Truthy(objs[i].study_type)
                              \/ toLowerCase(objs[i].study_type) \notin knownTypes)
           ELSE SelectSeq(filtered,
                  LAMBDA i : Truthy(objs[i].study_type)
                              /\ toLowerCase(objs[i].study_type) = toLowerCase(e.filters.studyType))
    ELSE filtered

filterByCitations(filtered, e, objs) ==
  IF e.filters.citationMin.kind # "null"
    THEN SelectSeq(filtered, LAMBDA i : JsGe(objs[i].citations, e.filters.citationMin))
    ELSE filtered

filterByJournal(filtered, e, objs) ==
  IF Truthy(e.filters.journal)
    THEN SelectSeq(filtered,
           LAMBDA i : Truthy(objs[i].journal)
                       /\ includes(toLowerCase(objs[i].journal), toLowerCase(e.filters.journal)))
    ELSE filtered

\* applyFilters, up to "Update filtered publications": the value of filtered
publicationResults(allPublications, e, objs) ==
  filterByJournal(
    filterByCitations(
      filterByStudyType(
        filterByQuartile(
          filterByYearMax(
            filterByYearMin(
              filterByText(allPublications, e, objs),
              e, objs), e, objs), e, objs), e, objs), e, objs), e, objs)

\* What the user can enter in the publication filter fields; a numeric
\* field yields null when empty and parseInt of its text otherwise
YearMinInputs == {Null, Num(2000), NaN}
YearMaxInputs == {Null, Num(2005), NaN}
CitationMinInputs == {Null, Num(5), NaN}
QuartileOptions == {<<"all">>, <<"Q1">>, <<"unranked">>}
StudyTypeOptions == {<<"all">>, <<"systematic review">>, <<"other">>}
JournalInputs == {<< >>, <<"C", "A">>}
PubSearchInputs == {<< >>, <<"C", "A">>}

\* initialize, when the fetch resolved with a well-formed document
PubInitialize(doc) ==
  /\ mode = "publications"
  /\ ~pub.loaded
  /\ load.status = "loading" /\ load.response = "ok"
  /\ \E allPublications \in {FreshRef({})} :
     \E filteredPublications \in
          {SpreadRef(allPublications, FreshRef({allPublications}))} :
     \E h \in {[[EmptyHeap EXCEPT ![allPublications] = RecordRefs(Len(doc))]
                  EXCEPT ![filteredPublications] = RecordRefs(Len(doc))]} :
     \E p \in {onPageChange(NewPaginator(filteredPublications, ItemsPerPageDefault))} :
     \E out \in {goToPage(p, h, controls, rendered, 1)} :
        /\ pub' = [pub EXCEPT !.loaded = TRUE, !.allPublications = allPublications,
                              !.filteredPublications = filteredPublications]
        /\ objects' = doc
        /\ heap' = Collect(h, {allPublications, filteredPublications})
        /\ paginator' = out.paginator
        /\ sorter' = NewTableSorter(filteredPublications)
        /\ resultsCount' = updateResultsCount(Len(h[filteredPublications]),
                                              Len(h[allPublications]))
        /\ controls' = out.controls
        /\ rendered' = out.rendered
        /\ lastOp' = Op("initialize", 0, 1, out.called)
  /\ load' = [load EXCEPT !.status = "content"]
  /\ download' = NoDownload
  /\ UNCHANGED <<mode, charts, index, debounced, gene>>

\* applyFilters run on the engine fields e; the TableSorter keeps the array
\* it was constructed with
PubApplyFilters(e, op) ==
  \E filtered \in {SpreadRef(e.allPublications,
                             FreshRef({e.allPublications, sorter.data}))} :
  \E value \in {publicationResults(heap[e.allPublications], e, objects)} :
  \E h \in {[heap EXCEPT ![filtered] = value]} :
  \E out \in {updateData(paginator, h, rendered, filtered)} :
     /\ pub' = [e EXCEPT !.filteredPublications = filtered]
     /\ heap' = Collect(h, {e.allPublications, sorter.data, filtered})
     /\ resultsCount' = updateResultsCount(Len(value), Len(h[e.allPublications]))
     /\ paginator' = out.paginator
     /\ controls' = out.controls
     /\ rendered' = out.rendered
     /\ lastOp' = Op(op, ShownBefore(op, heap[pub.filteredPublications]),
                     paginator.currentPage, out.called)
     /\ download' = NoDownload
  /\ UNCHANGED <<mode, charts, index, load, debounced, objects, gene, sorter>>

PubFilters(f) == [pub EXCEPT !.filters = f]

\* the search box's handler, once its timer fires
PubSearchInput(text) ==
  /\ mode = "publications" /\ pub.loaded
  /\ PubApplyFilters([pub EXCEPT !.currentSearchTerm = text], "applyFilters")

PubClearSearch ==
  /\ mode = "publications" /\ pub.loaded
  /\ PubApplyFilters([pub EXCEPT !.currentSearchTerm = << >>], "applyFilters")

PubYearMinChange(value) ==
  /\ mode = "publications" /\ pub.loaded
  /\ PubApplyFilters(PubFilters([pub.filters EXCEPT !.yearMin = value]), "applyFilters")

PubYearMaxChange(value) ==
  /\ mode = "publications" /\ pub.loaded
  /\ PubApplyFilters(PubFilters([pub.filters EXCEPT !.yearMax = value]), "applyFilters")

PubQuartileChange(value) ==
  /\ mode = "publications" /\ pub.loaded
  /\ PubApplyFilters(PubFilters([pub.filters EXCEPT !.quartile = value]), "applyFilters")

PubStudyTypeChange(value) ==
  /\ mode = "publications" /\ pub.loaded
  /\ PubApplyFilters(PubFilters([pub.filters EXCEPT !.studyType = value]), "applyFilters")

PubCitationMinChange(value) ==
  /\ mode = "publications" /\ pub.loaded
  /\ PubApplyFilters(PubFilters([pub.filters EXCEPT !.citationMin = value]),
                     "applyFilters")

\* the journal field's handler, once its timer fires
PubJournalInput(text) ==
  /\ mode = "publications" /\ pub.loaded
  /\ PubApplyFilters(PubFilters([pub.filters EXCEPT !.journal = text]), "applyFilters")

PubResetFilters ==
  /\ mode = "publications" /\ pub.loaded
  /\ PubApplyFilters([pub EXCEPT !.currentSearchTerm = << >>,
                                 !.filters = DefaultPublicationFilters],
                     "resetFilters")

\* exportToCSV reads filteredPublications, writes no field and hands the
\* file to the browser
PubExport ==
  /\ mode = "publications" /\ pub.loaded
  /\ lastOp' = Op("exportResults", Len(heap[pub.filteredPublications]),
                  paginator.currentPage, FALSE)
  /\ download' = publicationsToCSV(heap[pub.filteredPublications], objects)
  /\ UNCHANGED <<mode, charts, index,
                 load, debounced, heap, objects, gene, pub, paginator, sorter, controls,
                 rendered,
                 resultsCount>>

PubSortableHeaders == {<<"title", "auto">>, <<"year", "auto">>}

\* A click on a sortable header: TableSorter.sort, whose render callback
\* stores the sorted array in filteredPublications and hands it to
\* paginator.updateData
PubSort(column, type) ==
  /\ mode = "publications" /\ pub.loaded
  /\ \E s \in {sortHeader(sorter, column)} :
     \E data \in {heap[s.data]} :
     \E sorted \in sortOutcomes(data, objects, column,
                                sortType(data, objects, column, type), s.sortDirection) :
     \E h \in {[heap EXCEPT ![s.data] = sorted]} :
     \E out \in {updateData(paginator, h, rendered, s.data)} :
        /\ sorter' = s
        /\ pub' = [pub EXCEPT !.filteredPublications = s.data]
        /\ heap' = Collect(h, {pub.allPublications, s.data})
        /\ paginator' = out.paginator
        /\ controls' = out.controls
        /\ rendered' = out.rendered
        /\ lastOp' = Op("sort", 0, paginator.currentPage, out.called)
  /\ download' = NoDownload
  /\ UNCHANGED <<mode, charts, index, load, debounced, objects, gene, resultsCount>>

(***************************************************************************)
(* The pages: either engine is constructed on DOMContentLoaded, loads its  *)
(* document and then serves the handlers; the pagination buttons call      *)
(* window.paginator.                                                       *)
(***************************************************************************)
\* How the fetch of initialize can settle: the promise rejects, or resolves
\* with a response whose ok flag is set (2xx) or not
Responses == {"rejected", "ok", "not ok"}

\* The first await of initialize settles.  A rejection lands in the catch
\* block; publications.js also throws on !response.ok, gene-search.js goes
\* on to response.json() whatever the status.
FetchSettles(r) ==
  /\ mode \in {"gene", "publications"}
  /\ load.response = "pending"
  /\ \E failed \in {r = "rejected" \/ (mode = "publications" /\ r = "not ok")} :
       /\ load' = [response |-> r, status |-> IF failed THEN "error" ELSE "loading"]
       /\ gene' = IF mode = "gene" /\ failed THEN [gene EXCEPT !.isLoading = FALSE] ELSE gene
  /\ lastOp' = Op("fetch", 0, 0, FALSE)
  /\ download' = NoDownload
  /\ UNCHANGED <<mode, charts, index, debounced, heap, objects, pub, paginator, sorter,
                 controls, rendered, resultsCount>>

\* What makes the rest of the try block throw before the store is assigned:
\* response.json() rejects, or the document has no record array
BodyFailures == <<"malformed body", "no record array">>

BodyFails(k) ==
  /\ mode \in {"gene", "publications"}
  /\ load.status = "loading"
  /\ load.response \in (IF mode = "gene" THEN {"ok", "not ok"} ELSE {"ok"})
  /\ load' = [load EXCEPT !.status = "error"]
  /\ gene' = IF mode = "gene" THEN [gene EXCEPT !.isLoading = FALSE] ELSE gene
  /\ lastOp' = Op("initializeFailed", k, 0, FALSE)
  /\ download' = NoDownload
  /\ UNCHANGED <<mode, charts, index, debounced, heap, objects, pub, paginator, sorter,
                 controls, rendered, resultsCount>>

Init ==
  /\ mode \in {"gene", "publications"}
  /\ heap = EmptyHeap
  /\ objects = << >>
  /\ gene = IF mode = "gene" THEN NewGeneSearchEngine ELSE NoEngine
  /\ pub = IF mode = "publications" THEN NewPublicationsEngine ELSE NoEngine
  /\ paginator = NoPaginator
  /\ sorter = NoSorter
  /\ controls = NoControls
  /\ rendered = << >>
  /\ resultsCount = NoCount
  /\ lastOp = Op("new", 0, 0, FALSE)
  /\ load = [response |-> "pending", status |-> "loading"]
  /\ download = NoDownload
  /\ charts = NoCharts
  /\ index = NoIndex
  /\ debounced = NoDebounce

\* Every handler of a page.  The filter handlers take one input that narrows
\* the result and (through reset or the opposite input) the default; the
\* filters over all their inputs are NextFilters.
Next ==
  \/ \E r \in Responses : FetchSettles(r)
  \/ \E k \in 1..Len(BodyFailures) : BodyFails(k)
  \/ \E doc \in GeneDocuments : GeneInitialize(doc)
  \/ \E text \in {<<"C", "A">>} : GeneSearchInput(text)
  \/ GeneClearSearch
  \/ \E value \in {"all", "up"} : GeneRegulationChange(value)
  \/ \E checked \in BOOLEAN : GeneDatasetChange("bulk_rnaseq", checked)
  \/ \E value \in {Num(50)} : GenePvalueInput(value)
  \/ \E value \in {NaN} : GeneLog2fcMinInput(value)
  \/ \E value \in {NaN} : GeneLog2fcMaxInput(value)
  \/ GeneResetFilters
  \/ GeneExportResults
  \/ \E hd \in GeneSortableHeaders : GeneSort(hd[1], hd[2])
  \/ \E doc \in PublicationDocuments : PubInitialize(doc)
  \/ \E text \in {<<"C", "A">>} : PubSearchInput(text)
  \/ PubClearSearch
  \/ \E value \in {Num(2000)} : PubYearMinChange(value)
  \/ \E value \in {Null} : PubYearMaxChange(value)
  \/ \E value \in {<<"all">>, <<"Q1">>} : PubQuartileChange(value)
  \/ \E value \in {<<"all">>} : PubStudyTypeChange(value)
  \/ \E value \in {Null} : PubCitationMinChange(value)
  \/ \E text \in {<< >>} : PubJournalInput(text)
  \/ PubResetFilters
  \/ PubExport
  \/ \E hd \in PubSortableHeaders : PubSort(hd[1], hd[2])
  \/ PagNextPage
  \/ PagPrevPage
  \/ \E k \in {n \in PerPageOptions : n <= 50} : PagChangeItemsPerPage(k)

Spec == Init /\ [][Next]_vars

\* The load and the filter handlers alone, over every input
NextFilters ==
  \/ \E r \in {"ok"} : FetchSettles(r)
  \/ \E doc \in GeneDocuments : GeneInitialize(doc)
  \/ \E text \in SearchInputs : GeneSearchInput(text)
  \/ GeneClearSearch
  \/ \E value \in {"all", "up", "down"} : GeneRegulationChange(value)
  \/ \E i \in 1..Len(DatasetKeys), checked \in BOOLEAN :
       GeneDatasetChange(DatasetKeys[i], checked)
  \/ \E value \in PvalueInputs : GenePvalueInput(value)
  \/ \E value \in Log2fcMinInputs : GeneLog2fcMinInput(value)
  \/ \E value \in Log2fcMaxInputs : GeneLog2fcMaxInput(value)
  \/ GeneResetFilters
  \/ \E doc \in PublicationDocuments : PubInitialize(doc)
  \/ \E text \in PubSearchInputs : PubSearchInput(text)
  \/ PubClearSearch
  \/ \E value \in YearMinInputs : PubYearMinChange(value)
  \/ \E value \in YearMaxInputs : PubYearMaxChange(value)
  \/ \E value \in QuartileOptions : PubQuartileChange(value)
  \/ \E value \in StudyTypeOptions : PubStudyTypeChange(value)
  \/ \E value \in CitationMinInputs : PubCitationMinChange(value)
  \/ \E text \in JournalInputs : PubJournalInput(text)
  \/ PubResetFilters

SpecFilters == Init /\ [][NextFilters]_vars

(***************************************************************************)
(* A TableSorter on its own: constructed over an array of records, then    *)
(* sort(column, type) is called through its sortable headers.              *)
(***************************************************************************)
SortRecord(title, year, citations) == [title |-> title, year |-> year, citations |-> citations]

\* Records with null keys, equal keys and numbers of different lengths
SortRecords ==
  << SortRecord(<<"b">>, Null, Null),
     SortRecord(<<"a">>, Num(1990), Num(12)),
     SortRecord(<<"B">>, Num(2005), Num(5)),
     SortRecord(<<"a">>, Num(1990), Null),
     SortRecord(<<"c">>, Null, Num(5)) >>

MaxSorted == 4      \* most records in a sorted array

SortDocuments == DocumentsUpTo(SortRecords, MaxSorted)

\* The sortable headers: data-sort column and data-type (absent: 'auto')
SorterHeaders ==
  << <<"title", "auto">>, <<"year", "auto">>, <<"citations", "auto">>,
     <<"citations", "number">> >>

InitSorter ==
  /\ mode = "sorter"
  /\ objects \in SortDocuments
  /\ heap = [EmptyHeap EXCEPT ![1] = RecordRefs(Len(objects))]
  /\ gene = NoEngine
  /\ pub = NoEngine
  /\ paginator = NoPaginator
  /\ sorter = NewTableSorter(1)
  /\ controls = NoControls
  /\ rendered = << >>
  /\ resultsCount = NoCount
  /\ lastOp = Op("new", 0, 0, FALSE)
  /\ load = NoLoad
  /\ download = NoDownload
  /\ charts = NoCharts
  /\ index = NoIndex
  /\ debounced = NoDebounce

\* sort(column, type): toggle, type detection, Array.prototype.sort in place,
\* then renderCallback(this.data); lastOp.arg is the header clicked
SorterSort(i) ==
  /\ mode = "sorter"
  /\ \E s \in {sortHeader(sorter, SorterHeaders[i][1])} :
     \E data \in {heap[s.data]} :
     \E sorted \in sortOutcomes(data, objects, SorterHeaders[i][1],
                                sortType(data, objects, SorterHeaders[i][1],
                                         SorterHeaders[i][2]),
                                s.sortDirection) :
        /\ sorter' = s
        /\ heap' = [heap EXCEPT ![s.data] = sorted]
        /\ rendered' = sorted
        /\ lastOp' = Op("sort", i, 0, TRUE)
  /\ download' = NoDownload
  /\ UNCHANGED <<mode, charts, index,
                 load, debounced, objects, gene, pub, paginator, controls, resultsCount>>

NextSorter == \E i \in 1..Len(SorterHeaders) : SorterSort(i)

SpecSorter == InitSorter /\ [][NextSorter]_vars

(***************************************************************************)
(* The pages with documents whose values contain commas, quotes, line      *)
(* breaks and zeros: load, narrow the view by a search, export.            *)
(***************************************************************************)
MaxExported == 3     \* most records in an exported document

\* A gene whose name needs quoting, with a fold change of 0
GeneExportDocuments ==
  DocumentsUpTo(RawGenes \o
    << RawGene(<<"S", "b">>, << >>, <<"a", Comma, " ", Quote, "b", Quote, Newline, "c">>,
               <<"e", "5">>, RawRnaseq(Num(0), Num(5), "unchanged"), NoRawSpatial,
               RawSpatial(Num(-15), Num(PValueOne), "down"), FALSE, FALSE) >>,
    MaxExported)

\* A publication whose title and abstract need quoting
PublicationExportDocuments ==
  DocumentsUpTo(Publications \o
    << [Publication(4, <<"a", Comma, "b">>, <<"c", Quote>>, Num(2005), Num(0),
                    <<Quote, "g", Quote, Newline, "c">>, <<"Case report">>, << >>,
                    <<"Q2">>, << >>)
          EXCEPT !.doi = <<"1", "0", ".", "1">>] >>,
    MaxExported)

NextExport ==
  \/ \E r \in {"ok"} : FetchSettles(r)
  \/ \E doc \in GeneExportDocuments : GeneInitialize(doc)
  \/ \E text \in {<<"C", "A">>} : GeneSearchInput(text)
  \/ GeneExportResults
  \/ \E doc \in PublicationExportDocuments : PubInitialize(doc)
  \/ \E text \in {<<"C", "A">>} : PubSearchInput(text)
  \/ PubExport

SpecExport == Init /\ [][NextExport]_vars

(***************************************************************************)
(* debounce (utils.js): two debounced handlers, as bindEventHandlers makes *)
(* one per input control, the browser's timers and the passing of time.    *)
(* debounced.calls and debounced.runs log the calls of each handler and    *)
(* the executions of its func.                                             *)
(***************************************************************************)
Wait == 2         \* the wait of both handlers, in clock ticks
MaxTime == 4      \* the clock stops here
MaxCalls == 2     \* most calls of one debounced handler

Handlers == {1, 2}
CallArgs == {"x", "y"}

NoTimer == [pending |-> FALSE, due |-> 0, handler |-> 0, args |-> "none"]

\* a debounce with one timeout variable for all its handlers
timeoutOf_Shared(h) == 1

\* The variable `timeout` a debounced handler closes over: each call of
\* debounce has its own
timeoutOf(h) == h

InitDebounce ==
  /\ mode = "debounce"
  /\ heap = EmptyHeap
  /\ objects = << >>
  /\ gene = NoEngine
  /\ pub = NoEngine
  /\ paginator = NoPaginator
  /\ sorter = NoSorter
  /\ controls = NoControls
  /\ rendered = << >>
  /\ resultsCount = NoCount
  /\ lastOp = Op("new", 0, 0, FALSE)
  /\ load = NoLoad
  /\ download = NoDownload
  /\ charts = NoCharts
  /\ index = NoIndex
  /\ debounced = [now |-> 0,
                  timers |-> [v \in Handlers |-> NoTimer],
                  calls |-> [h \in Handlers |-> << >>],
                  runs |-> [h \in Handlers |-> << >>]]

\* executedFunction(...args): clearTimeout(timeout); timeout =
\* setTimeout(later, wait)
DebouncedCall(h, args) ==
  /\ mode = "debounce"
  /\ Len(debounced.calls[h]) < MaxCalls
  /\ debounced.now + Wait <= MaxTime
  /\ debounced' =
       [debounced EXCEPT
          !.timers[timeoutOf(h)] = [pending |-> TRUE, due |-> debounced.now + Wait,
                                    handler |-> h, args |-> args],
          !.calls[h] = Append(@, [args |-> args, at |-> debounced.now])]
  /\ UNCHANGED <<mode, charts, index,
                 heap, objects, gene, pub, paginator, sorter, controls, rendered,
                 resultsCount, lastOp, load, download>>

\* The browser runs a timer that is due: later() clears the timeout and calls
\* func(...args).  A timer may run late, never early.
TimerFires(v) ==
  /\ mode = "debounce"
  /\ debounced.timers[v].pending
  /\ debounced.now >= debounced.timers[v].due
  /\ debounced' =
       [debounced EXCEPT
          !.timers[v] = NoTimer,
          !.runs[debounced.timers[v].handler] =
             Append(@, [args |-> debounced.timers[v].args, at |-> debounced.now,
                        call |-> Len(debounced.calls[debounced.timers[v].handler])])]
  /\ UNCHANGED <<mode, charts, index,
                 heap, objects, gene, pub, paginator, sorter, controls, rendered,
                 resultsCount, lastOp, load, download>>

\* Time passes
Tick ==
  /\ mode = "debounce"
  /\ debounced.now < MaxTime
  /\ debounced' = [debounced EXCEPT !.now = @ + 1]
  /\ UNCHANGED <<mode, charts, index,
                 heap, objects, gene, pub, paginator, sorter, controls, rendered,
                 resultsCount, lastOp, load, download>>

NextDebounce ==
  \/ \E h \in Handlers, args \in CallArgs : DebouncedCall(h, args)
  \/ \E v \in Handlers : TimerFires(v)
  \/ Tick

\* Time passes, and the event loop runs every timer that stays due
SpecDebounce ==
  /\ InitDebounce /\ [][NextDebounce]_vars
  /\ WF_vars(Tick)
  /\ \A v \in Handlers : WF_vars(TimerFires(v))

(***************************************************************************)
(* The gene page with its input elements and debounce timers.  The four    *)
(* text fields' handlers are debounced: an input event changes the text    *)
(* the element shows and (re)starts the field's timer; the handler runs    *)
(* when the timer fires and reads e.target.value then.  The select and the *)
(* checkboxes call applyFilters at once, so what they show is the value    *)
(* their handler stored in this.filters.  The elements start with the      *)
(* values resetFilters writes.                                             *)
(***************************************************************************)
\* The text fields that receive input events: the search box (300 ms), the
\* p-value threshold and one log2FC bound (500 ms).  The handler of
\* log2fcMax is the handler of log2fcMin on the other filter field.
EventFields == {"searchInput", "pvalueThreshold", "log2fcMin"}

\* What a field shows, as parseFloat reads it for the numeric fields
FieldInputs(field) ==
  CASE field = "searchInput" -> {<< >>, <<"C", "A">>}
    [] field = "pvalueThreshold" -> {NaN, Num(50)}
    [] field = "log2fcMin" -> {NaN, Num(10)}

ResetControlValues ==
  [searchInput |-> << >>, pvalueThreshold |-> Num(PValueOne), log2fcMin |-> NaN]

resetControls_KeepText(d) == d

\* resetFilters: the values it writes into the text fields
resetControls(d) == [d EXCEPT !.value = ResetControlValues]

\* The engine fields after the field's handler has stored the value it reads
ReadControl(e, field, value) ==
  CASE field = "searchInput" -> [e EXCEPT !.currentSearchTerm = trim(value)]
    [] field = "pvalueThreshold" ->
         [e EXCEPT !.filters.pvalueThreshold =
                     IF value.kind = "NaN" THEN Num(PValueOne) ELSE value]
    [] field = "log2fcMin" ->
         [e EXCEPT !.filters.log2fcMin = IF value.kind = "NaN" THEN Null ELSE value]

InitEvents ==
  /\ mode = "gene"
  /\ heap = EmptyHeap
  /\ objects = << >>
  /\ gene = NewGeneSearchEngine
  /\ pub = NoEngine
  /\ paginator = NoPaginator
  /\ sorter = NoSorter
  /\ controls = NoControls
  /\ rendered = << >>
  /\ resultsCount = NoCount
  /\ lastOp = Op("new", 0, 0, FALSE)
  /\ load = [response |-> "pending", status |-> "loading"]
  /\ download = NoDownload
  /\ charts = NoCharts
  /\ index = NoIndex
  /\ debounced = [pending |-> {}, value |-> ResetControlValues]

\* An input event on a text field: the debounced wrapper clears the field's
\* timer and sets a new one; no handler runs yet
GeneInputEvent(field, value) ==
  /\ mode = "gene" /\ gene.loaded
  /\ debounced' = [debounced EXCEPT !.value[field] = value, !.pending = @ \cup {field}]
  /\ download' = NoDownload
  /\ UNCHANGED <<mode, charts, index, load, heap, objects, gene, pub, paginator, sorter, controls,
                 rendered, resultsCount, lastOp>>

\* A field's timer fires: its handler reads the text the field shows now
GeneTimerFires(field) ==
  /\ mode = "gene" /\ gene.loaded
  /\ field \in debounced.pending
  /\ GeneFilterCycle(ReadControl(gene, field, debounced.value[field]), "applyFilters")
  /\ debounced' = [debounced EXCEPT !.pending = @ \ {field}]

\* The clear button empties the search box and filters at once; a pending
\* timer of the search box stays pending
GeneClearSearchClick ==
  /\ mode = "gene" /\ gene.loaded
  /\ GeneFilterCycle([gene EXCEPT !.currentSearchTerm = << >>], "applyFilters")
  /\ debounced' = [debounced EXCEPT !.value.searchInput = << >>]

GeneResetClick ==
  /\ mode = "gene" /\ gene.loaded
  /\ GeneFilterCycle(resetFilters(gene), "resetFilters")
  /\ debounced' = resetControls(debounced)

\* The document loaded: the first MaxGenes raw gene records
EventDocuments == {SubSeq(RawGenes, 1, Min(MaxGenes, Len(RawGenes)))}

NextEvents ==
  \/ \E r \in {"ok"} : FetchSettles(r)
  \/ \E doc \in EventDocuments : GeneInitialize(doc)
  \/ \E field \in EventFields : \E value \in FieldInputs(field) : GeneInputEvent(field, value)
  \/ \E field \in EventFields : GeneTimerFires(field)
  \/ GeneClearSearchClick
  \/ \E value \in {"all", "up"} : GeneRegulationChange(value)
  \/ \E checked \in BOOLEAN : GeneDatasetChange("bulk_rnaseq", checked)
  \/ GeneResetClick
  \/ \E hd \in {<<"symbol", "auto">>} : GeneSort(hd[1], hd[2])
  \/ PagNextPage
  \/ PagPrevPage

SpecEvents == InitEvents /\ [][NextEvents]_vars

(***************************************************************************)
(* The gene page searched with terms that hold pattern characters, over    *)
(* gene names that hold them too.                                          *)
(***************************************************************************)
RenderGenes ==
  << RawGene(<<"C", "a">>, << >>, <<"a", "(", "b", ")">>, <<"e", "1">>,
             RawRnaseq(Num(5), Num(40), "up"), NoRawSpatial, NoRawSpatial, FALSE, FALSE),
     RawGene(<<"G", "r">>, << >>, <<"c", "[", "d", "]", "*">>, <<"e", "2">>,
             NoRawRnaseq, RawSpatial(Num(-15), Num(200), "down"), NoRawSpatial,
             FALSE, FALSE) >>

RenderDocuments == DocumentsUpTo(RenderGenes, 2)

RenderSearchInputs ==
  {<<"(">>, <<"[">>, <<"*">>, <<"(", "b", ")">>, <<"[", "d", "]">>, <<"C", "A">>, <<"x">>}

NextRender ==
  \/ \E r \in {"ok"} : FetchSettles(r)
  \/ \E doc \in RenderDocuments : GeneInitialize(doc)
  \/ \E text \in RenderSearchInputs : GeneSearchInput(text)
  \/ GeneClearSearch
  \/ \E value \in {"all", "up"} : GeneRegulationChange(value)
  \/ \E checked \in BOOLEAN : GeneDatasetChange("bulk_rnaseq", checked)
  \/ GeneResetFilters

SpecRender == Init /\ [][NextRender]_vars

(***************************************************************************)
(* charts.js: the registry chartInstances (canvas id -> Chart) and the     *)
(* Chart objects constructed, each with the number of times its destroy()  *)
(* was called.  The five create* functions treat the registry alike.       *)
(***************************************************************************)
MaxCharts == 3      \* most Chart objects constructed
MaxDestroys == 2    \* destroyAllCharts is not called on a chart destroyed this often

\* The canvas elements of the page, and the ids a caller can pass
Canvases == {"volcanoPlot", "topDegsChart"}
CanvasIds == Canvases \cup {"missing"}

CreateFunctions ==
  {"createVolcanoPlot", "createTopDEGsBarChart", "createEnrichmentDotPlot",
   "createCombinedDEGsChart", "createStatsDonutChart"}

\* const chartInstances = {}: no canvas id has an entry (0)
NewCharts ==
  [loaded |-> TRUE, chartInstances |-> [id \in Canvases |-> 0], made |-> << >>,
   last |-> "load", threw |-> FALSE]

\* chart.destroy() on the k-th Chart constructed
destroy(made, k) == [made EXCEPT ![k].destroyed = @ + 1]

\* a create* that leaves the chart of the canvas alone
createChart_NoDestroy(c, create, canvasId) ==
  IF canvasId \notin Canvases
    THEN [c EXCEPT !.last = create, !.threw = FALSE]
    ELSE [c EXCEPT !.made = Append(c.made, [canvas |-> canvasId, destroyed |-> 0]),
                   !.chartInstances[canvasId] = Len(c.made) + 1,
                   !.last = create, !.threw = FALSE]

\* create*(canvasId, ...): null when the canvas is missing; otherwise the
\* registered chart of the canvas is destroyed and a new Chart registered
createChart(c, create, canvasId) ==
  IF canvasId \notin Canvases
    THEN [c EXCEPT !.last = create, !.threw = FALSE]
    ELSE LET existing == c.chartInstances[canvasId]
             made == IF existing # 0 THEN destroy(c.made, existing) ELSE c.made
         IN [c EXCEPT !.made = Append(made, [canvas |-> canvasId, destroyed |-> 0]),
                      !.chartInstances[canvasId] = Len(made) + 1,
                      !.last = create, !.threw = FALSE]

destroyChart(c, canvasId) ==
  IF canvasId \in Canvases /\ c.chartInstances[canvasId] # 0
    THEN [c EXCEPT !.made = destroy(c.made, c.chartInstances[canvasId]),
                   !.chartInstances[canvasId] = 0,
                   !.last = "destroyChart", !.threw = FALSE]
    ELSE [c EXCEPT !.last = "destroyChart", !.threw = FALSE]

\* destroyAllCharts: destroy() on every registered chart, then
\* chartInstances = {} - an assignment to a const binding, which throws a
\* TypeError and leaves the registry as it was
destroyAllCharts(c) ==
  LET registered == {c.chartInstances[id] : id \in Canvases} \ {0}
  IN [c EXCEPT !.made = [k \in 1..Len(c.made) |->
                           IF k \in registered
                             THEN [c.made[k] EXCEPT !.destroyed = @ + 1]
                             ELSE c.made[k]],
               !.last = "destroyAllCharts", !.threw = TRUE]

InitCharts ==
  /\ mode = "charts"
  /\ heap = EmptyHeap
  /\ objects = << >>
  /\ gene = NoEngine
  /\ pub = NoEngine
  /\ paginator = NoPaginator
  /\ sorter = NoSorter
  /\ controls = NoControls
  /\ rendered = << >>
  /\ resultsCount = NoCount
  /\ lastOp = Op("new", 0, 0, FALSE)
  /\ load = NoLoad
  /\ download = NoDownload
  /\ debounced = NoDebounce
  /\ charts = NewCharts
  /\ index = NoIndex

ChartCreate(create, canvasId) ==
  /\ mode = "charts"
  /\ Len(charts.made) < MaxCharts
  /\ charts' = createChart(charts, create, canvasId)
  /\ UNCHANGED <<mode, index, heap, objects, gene, pub, paginator, sorter, controls,
                 rendered, resultsCount, lastOp, load, download, debounced>>

ChartDestroy(canvasId) ==
  /\ mode = "charts"
  /\ charts' = destroyChart(charts, canvasId)
  /\ UNCHANGED <<mode, index, heap, objects, gene, pub, paginator, sorter, controls,
                 rendered, resultsCount, lastOp, load, download, debounced>>

ChartDestroyAll ==
  /\ mode = "charts"
  /\ \A id \in Canvases :
       charts.chartInstances[id] # 0 =>
         charts.made[charts.chartInstances[id]].destroyed < MaxDestroys
  /\ charts' = destroyAllCharts(charts)
  /\ UNCHANGED <<mode, index, heap, objects, gene, pub, paginator, sorter, controls,
                 rendered, resultsCount, lastOp, load, download, debounced>>

\* create* and destroyChart in any order
NextCharts ==
  \/ \E create \in CreateFunctions, canvasId \in CanvasIds : ChartCreate(create, canvasId)
  \/ \E canvasId \in CanvasIds : ChartDestroy(canvasId)

SpecCharts == InitCharts /\ [][NextCharts]_vars

\* Every function charts.js exports
NextChartsAll ==
  \/ \E create \in CreateFunctions, canvasId \in CanvasIds : ChartCreate(create, canvasId)
  \/ \E canvasId \in CanvasIds : ChartDestroy(canvasId)
  \/ ChartDestroyAll

SpecChartsAll == InitCharts /\ [][NextChartsAll]_vars

(***************************************************************************)
(* build-gene-database.js: buildMasterIndex merges the bulk RNA-seq, the   *)
(* spatial P15, the spatial P30 and the seizure sources into geneMap, a    *)
(* Map keyed by the upper-cased symbol (here the entries in insertion      *)
(* order).  A row's log2fc and id are its position in its source, so that  *)
(* a merged record tells which row a value came from; 0 is a field that    *)
(* was never set.                                                          *)
(***************************************************************************)
MaxRows == 2        \* most rows in the bulk RNA-seq source

ToUpperChar(c) ==
  IF \E i \in 1..Len(LowerChars) : LowerChars[i] = c
    THEN UpperChars[CHOOSE i \in 1..Len(LowerChars) : LowerChars[i] = c]
    ELSE c

\* String.prototype.toUpperCase
toUpperCase(s) == [i \in 1..Len(s) |-> ToUpperChar(s[i])]

\* The rows the sources are drawn from: symbol and name
RnaseqRows ==
  << [symbol |-> <<"C", "a">>, name |-> <<"E", "N", "S", "1">>],
     [symbol |-> <<"C", "A">>, name |-> <<"a", "b">>],
     [symbol |-> <<"G", "b">>, name |-> << >>] >>
SpatialRows ==
  << [symbol |-> <<"C", "a">>, name |-> <<"c", "a">>],
     [symbol |-> <<"c", "a">>, name |-> << >>],
     [symbol |-> <<"G", "b">>, name |-> <<"g", "b">>] >>
SeizureRows == << <<"C", "A">>, <<"S", "c">> >>

\* The sources of at most n rows drawn from rows, each row numbered
SourcesUpTo(rows, n) ==
  UNION {{[i \in 1..k |-> [symbol |-> rows[choice[i]].symbol,
                           name |-> rows[choice[i]].name, at |-> i]] :
            choice \in [1..k -> 1..Len(rows)]} : k \in 0..n}

\* The position in geneMap of the entry with the key, 0 when there is none
EntryOf(geneMap, key) ==
  IF \E k \in 1..Len(geneMap) : geneMap[k].key = key
    THEN CHOOSE k \in 1..Len(geneMap) : geneMap[k].key = key
    ELSE 0

NewEntry(key, symbol, name) ==
  [key |-> key, primary_symbol |-> symbol, ensembl_id |-> 0, entrez_id |-> 0,
   name |-> name, rnaseq |-> 0, spatial_p15 |-> 0, spatial_p30 |-> 0,
   is_seizure_gene |-> FALSE]

\* geneMap with an entry for the key: the one it has, or a new one at the end
WithEntry(geneMap, key, entry) ==
  IF EntryOf(geneMap, key) = 0 THEN Append(geneMap, entry) ELSE geneMap

\* entry.name.startsWith('ENS')
startsWithENS(name) == Len(name) >= 3 /\ SubSeq(name, 1, 3) = <<"E", "N", "S">>

\* rnaseqData.genes.forEach: one row
addRnaseq(geneMap, row) ==
  LET key == toUpperCase(row.symbol)
      map == WithEntry(geneMap, key,
                       [NewEntry(key, row.symbol, row.name) EXCEPT !.ensembl_id = row.at])
  IN [map EXCEPT ![EntryOf(map, key)].rnaseq = row.at]

\* spatialP15Data.genes.forEach and spatialP30Data.genes.forEach: one row
addSpatial(geneMap, row, dataset) ==
  LET key == toUpperCase(row.symbol)
      map == WithEntry(geneMap, key,
                       [NewEntry(key, row.symbol, row.name) EXCEPT !.entrez_id = row.at])
      k == EntryOf(map, key)
      entry == map[k]
  IN [map EXCEPT ![k] =
        [entry EXCEPT
           !.entrez_id = IF entry.entrez_id = 0 THEN row.at ELSE @,
           !.name = IF entry.name = << >> \/ startsWithENS(entry.name) THEN row.name ELSE @,
           ![dataset] = row.at]]

\* seizureGenes.forEach: one symbol
markSeizure(geneMap, row) ==
  LET key == toUpperCase(row)
  IN IF EntryOf(geneMap, key) # 0
       THEN [geneMap EXCEPT ![EntryOf(geneMap, key)].is_seizure_gene = TRUE]
       ELSE Append(geneMap, [NewEntry(key, row, << >>) EXCEPT !.is_seizure_gene = TRUE])

RECURSIVE forEachRnaseq(_, _)
forEachRnaseq(geneMap, genes) ==
  IF genes = << >> THEN geneMap
  ELSE forEachRnaseq(addRnaseq(geneMap, Head(genes)), Tail(genes))

RECURSIVE forEachSpatial(_, _, _)
forEachSpatial(geneMap, genes, dataset) ==
  IF genes = << >> THEN geneMap
  ELSE forEachSpatial(addSpatial(geneMap, Head(genes), dataset), Tail(genes), dataset)

RECURSIVE forEachSeizure(_, _)
forEachSeizure(geneMap, genes) ==
  IF genes = << >> THEN geneMap
  ELSE forEachSeizure(markSeizure(geneMap, Head(genes)), Tail(genes))

\* Array.from(geneMap.values()) sorted by primary_symbol.localeCompare
sortBySymbol(geneMap) ==
  LET n == Len(geneMap)
      cmp(i, j) == localeCompare(toLowerCase(geneMap[i].primary_symbol),
                                 toLowerCase(geneMap[j].primary_symbol))
      order == CHOOSE p \in IndexOrders(n) :
                 \A k, l \in 1..n : k < l => (cmp(p[k], p[l]) < 0
                                              \/ (cmp(p[k], p[l]) = 0 /\ p[k] < p[l]))
  IN [k \in 1..n |-> geneMap[order[k]]]

InitBuild ==
  /\ mode = "build"
  /\ heap = EmptyHeap
  /\ objects = << >>
  /\ gene = NoEngine
  /\ pub = NoEngine
  /\ paginator = NoPaginator
  /\ sorter = NoSorter
  /\ controls = NoControls
  /\ rendered = << >>
  /\ resultsCount = NoCount
  /\ lastOp = Op("new", 0, 0, FALSE)
  /\ load = NoLoad
  /\ download = NoDownload
  /\ debounced = NoDebounce
  /\ charts = NoCharts
  /\ \E rnaseq \in SourcesUpTo(RnaseqRows, MaxRows), p15 \in SourcesUpTo(SpatialRows, 1),
        p30 \in SourcesUpTo(SpatialRows, 1),
        seizure \in {<< >>} \cup {<<SeizureRows[i]>> : i \in 1..Len(SeizureRows)} :
       index = [phase |-> "loaded", rnaseq |-> rnaseq, spatial_p15 |-> p15,
                spatial_p30 |-> p30, seizure |-> seizure, geneMap |-> << >>,
                genes |-> << >>]

BuildStep(from, to, geneMap) ==
  /\ mode = "build"
  /\ index.phase = from
  /\ index' = [index EXCEPT !.phase = to, !.geneMap = geneMap]
  /\ UNCHANGED <<mode, charts, heap, objects, gene, pub, paginator, sorter, controls,
                 rendered, resultsCount, lastOp, load, download, debounced>>

ProcessRnaseq == BuildStep("loaded", "rnaseq", forEachRnaseq(index.geneMap, index.rnaseq))

ProcessSpatialP15 ==
  BuildStep("rnaseq", "spatial_p15",
            forEachSpatial(index.geneMap, index.spatial_p15, "spatial_p15"))

ProcessSpatialP30 ==
  BuildStep("spatial_p15", "spatial_p30",
            forEachSpatial(index.geneMap, index.spatial_p30, "spatial_p30"))

MarkSeizureGenes ==
  BuildStep("spatial_p30", "seizure", forEachSeizure(index.geneMap, index.seizure))

\* The array written to gene-master-index.json
ConvertToArray ==
  /\ mode = "build"
  /\ index.phase = "seizure"
  /\ index' = [index EXCEPT !.phase = "written", !.genes = sortBySymbol(index.geneMap)]
  /\ UNCHANGED <<mode, charts, heap, objects, gene, pub, paginator, sorter, controls,
                 rendered, resultsCount, lastOp, load, download, debounced>>

NextBuild ==
  \/ ProcessRnaseq
  \/ ProcessSpatialP15
  \/ ProcessSpatialP30
  \/ MarkSeizureGenes
  \/ ConvertToArray

SpecBuild == InitBuild /\ [][NextBuild]_vars

(***************************************************************************)
(* Filter claims, under SpecFilters.                                       *)
(***************************************************************************)

\* s is t with some elements left out: an increasing choice of positions of
\* t spells s
IsSubsequence(s, t) ==
  \E f \in [1..Len(s) -> 1..Len(t)] :
    /\ \A k \in 1..Len(s) : s[k] = t[f[k]]
    /\ \A k, l \in 1..Len(s) : k < l => f[k] < f[l]

\* The elements of a sequence
Range(s) == {s[k] : k \in 1..Len(s)}

\* C1: for every record store R and every filter state (gene mode: search
\* term, regulation, dataset toggles, p-value threshold, log2FC min/max;
\* publication mode: search term, year min/max, quartile, study type,
\* citation minimum, journal) the result of applyFilters is a subsequence of
\* R: every result record is a record of R, none occurs more often than in
\* R, and the survivors keep their relative order.
C1_ResultIsSubsequence ==
  /\ mode = "gene" /\ gene.loaded =>
       IsSubsequence(heap[gene.filteredGenes], heap[gene.allGenes])
  /\ mode = "publications" /\ pub.loaded =>
       IsSubsequence(heap[pub.filteredPublications], heap[pub.allPublications])

\* A search has just kept the second of two genes and dropped the first
C1_Witness ==
  /\ mode = "gene" /\ gene.loaded
  /\ lastOp.op = "applyFilters"
  /\ Truthy(gene.currentSearchTerm)
  /\ heap[gene.allGenes] = <<1, 2>>
  /\ heap[gene.filteredGenes] = <<2>>

\* C2: with every criterion at its default (empty search term,
\* regulation/quartile/study type "all", all four dataset toggles enabled,
\* p-value threshold 1.0, every numeric bound null, empty journal)
\* applyFilters returns exactly the record store, same records in the same
\* order; in particular after resetFilters from any prior filter state.
C2_DefaultIsIdentity ==
  /\ mode = "gene" /\ gene.loaded =>
       /\ lastOp.op = "resetFilters" =>
            gene.currentSearchTerm = << >> /\ gene.filters = DefaultGeneFilters
       /\ gene.currentSearchTerm = << >> /\ gene.filters = DefaultGeneFilters =>
            heap[gene.filteredGenes] = heap[gene.allGenes]
  /\ mode = "publications" /\ pub.loaded =>
       /\ lastOp.op = "resetFilters" =>
            pub.currentSearchTerm = << >> /\ pub.filters = DefaultPublicationFilters
       /\ pub.currentSearchTerm = << >> /\ pub.filters = DefaultPublicationFilters =>
            heap[pub.filteredPublications] = heap[pub.allPublications]

\* resetFilters has just run on a gene page that showed none of its two
\* records, and both are shown again
C2_Witness ==
  /\ mode = "gene" /\ gene.loaded
  /\ lastOp.op = "resetFilters"
  /\ lastOp.arg = 0
  /\ Len(heap[gene.allGenes]) = 2
  /\ heap[gene.filteredGenes] = heap[gene.allGenes]

\* The datasets that carry observations
ObservedDatasets == {"bulk_rnaseq", "spatial_p15", "spatial_p30"}

\* The toggles that are enabled
EnabledToggles(f) == {ds \in DOMAIN f.datasets : f.datasets[ds]}

\* g has an observation in an enabled dataset, or the seizure toggle is
\* enabled and g is flagged
InEnabledDataset(g, f) ==
  \/ \E ds \in ObservedDatasets : f.datasets[ds] /\ g[ds].present
  \/ f.datasets.seizure_gene /\ g.seizure_gene

\* The criteria of gene mode, each true of a record when the criterion is
\* not active
MeetsSearch(g, term) ==
  term # << >> =>
    \E field \in {"symbol", "name", "ensembl_id"} :
      includes(toLowerCase(g[field]), toLowerCase(term))

MeetsRegulation(g, f) ==
  f.regulation # "all" =>
    \E ds \in ObservedDatasets : f.datasets[ds] /\ g[ds].regulation = f.regulation

MeetsPvalue(g, f) ==
  JsLt(f.pvalueThreshold, Num(PValueOne)) =>
    \E ds \in ObservedDatasets : f.datasets[ds] /\ JsLe(g[ds].adj_p_val, f.pvalueThreshold)

\* the magnitude of the fold change lies within the bounds that are set
InLog2fcRange(fc, f) ==
  /\ NotNullish(fc)
  /\ f.log2fcMin.kind # "null" => JsGe(Abs(fc), f.log2fcMin)
  /\ f.log2fcMax.kind # "null" => JsLe(Abs(fc), f.log2fcMax)

MeetsLog2fc(g, f) ==
  f.log2fcMin.kind # "null" \/ f.log2fcMax.kind # "null" =>
    \E ds \in ObservedDatasets : InLog2fcRange(g[ds].log2fc, f)

\* Every criterion but dataset presence
MeetsOtherThanPresence(g, e) ==
  /\ MeetsSearch(g, e.currentSearchTerm)
  /\ MeetsRegulation(g, e.filters)
  /\ MeetsPvalue(g, e.filters)
  /\ MeetsLog2fc(g, e.filters)

\* The dataset-presence filter removes nothing
PresenceRemovesNothing ==
  \A i \in Range(heap[gene.allGenes]) :
    MeetsOtherThanPresence(objects[i], gene) => i \in Range(heap[gene.filteredGenes])

\* C8 as stated: for every combination of the four toggles a record is in
\* the result only if it has an observation in (or, for the seizure toggle,
\* is flagged as a member of) at least one enabled dataset, and with all
\* four toggles enabled the filter removes nothing.
C8_EveryCombination ==
  mode = "gene" /\ gene.loaded =>
    IF Cardinality(EnabledToggles(gene.filters)) = 4
      THEN PresenceRemovesNothing
      ELSE \A i \in Range(heap[gene.filteredGenes]) :
             InEnabledDataset(objects[i], gene.filters)

\* C8, amended: with one, two or three of the four toggles enabled a record
\* is in the result only if it has an observation in (or, for the seizure
\* toggle, is flagged as a member of) at least one enabled dataset; with all
\* four toggles enabled, and with none enabled, the filter removes nothing.
C8_DatasetPresence ==
  mode = "gene" /\ gene.loaded =>
    IF Cardinality(EnabledToggles(gene.filters)) \in {0, 4}
      THEN PresenceRemovesNothing
      ELSE \A i \in Range(heap[gene.filteredGenes]) :
             InEnabledDataset(objects[i], gene.filters)

\* With the seizure toggle alone enabled, one of two genes is shown: the
\* flagged one
C8_Witness ==
  /\ mode = "gene" /\ gene.loaded
  /\ lastOp.op = "applyFilters"
  /\ EnabledToggles(gene.filters) = {"seizure_gene"}
  /\ Len(heap[gene.allGenes]) = 2
  /\ Len(heap[gene.filteredGenes]) = 1
  /\ objects[heap[gene.filteredGenes][1]].seizure_gene

\* C9: when a log2FC bound is set, a record passes the fold-change range
\* filter iff at least one ENABLED dataset's fold change lies within
\* [min, max] (a null bound meaning unbounded); the values of datasets whose
\* toggle is disabled do not let a record pass.
C9_EnabledDatasetInRange ==
  mode = "gene" /\ gene.loaded
    /\ (gene.filters.log2fcMin.kind # "null" \/ gene.filters.log2fcMax.kind # "null") =>
      \A i \in Range(heap[gene.filteredGenes]) :
        \E ds \in ObservedDatasets :
          /\ gene.filters.datasets[ds]
          /\ InLog2fcRange(objects[i][ds].log2fc, gene.filters)

\* Every criterion of gene mode
MeetsEveryCriterion(g, e) ==
  /\ MeetsOtherThanPresence(g, e)
  /\ Cardinality(EnabledToggles(e.filters)) \in 1..3 => InEnabledDataset(g, e.filters)

\* What the filters numbered in S leave of results, over every order in
\* which they can be evaluated
RECURSIVE OutcomesOfOrders(_, _, _, _)
OutcomesOfOrders(S, results, e, objs) ==
  IF S = {} THEN {results}
  ELSE UNION {{GeneStep(k, r, e, objs) : r \in OutcomesOfOrders(S \ {k}, results, e, objs)} :
                k \in S}

\* C10: in gene mode a record is in the result iff it satisfies every active
\* criterion (AND), the regulation criterion and the p-value criterion each
\* being satisfied when at least one enabled dataset among bulk, spatial P15
\* and spatial P30 meets it (OR across datasets, separately per criterion);
\* the result does not depend on the order in which the criteria are
\* evaluated.
C10_ConjunctionOfCriteria ==
  mode = "gene" /\ gene.loaded =>
    /\ heap[gene.filteredGenes] =
         SelectSeq(heap[gene.allGenes], LAMBDA i : MeetsEveryCriterion(objects[i], gene))
    /\ OutcomesOfOrders(1..5, heap[gene.allGenes], gene, objects)
         = {heap[gene.filteredGenes]}

\* Regulation "down" and a p-value threshold of 0.05 are both active, and
\* the gene that is down only in spatial P15 and significant only in bulk is
\* in the result
C10_Witness ==
  /\ mode = "gene" /\ gene.loaded
  /\ gene.filters.regulation = "down"
  /\ gene.filters.pvalueThreshold = Num(50)
  /\ \E i \in Range(heap[gene.filteredGenes]) :
       /\ objects[i].bulk_rnaseq.regulation = "up"
       /\ objects[i].spatial_p15.regulation = "down"
       /\ ~JsLe(objects[i].spatial_p15.adj_p_val, Num(50))

(***************************************************************************)
(* The record store, under Spec.                                           *)
(***************************************************************************)

\* C3: after the initial load the record store (allGenes / allPublications)
\* is never changed by any sequence of filter changes, resets, column sorts,
\* page navigation, page-size changes or exports: its length, its records
\* and their order stay what was loaded.
C3_StoreNeverChanged ==
  /\ [][/\ gene.loaded =>
            /\ objects' = objects
            /\ gene'.allGenes = gene.allGenes
            /\ heap'[gene'.allGenes] = heap[gene.allGenes]
        /\ pub.loaded =>
            /\ objects' = objects
            /\ pub'.allPublications = pub.allPublications
            /\ heap'[pub'.allPublications] = heap[pub.allPublications]]_vars
  /\ [](/\ gene.loaded => heap[gene.allGenes] = RecordRefs(Len(objects))
        /\ pub.loaded => heap[pub.allPublications] = RecordRefs(Len(objects)))

\* A column sort has just put the two records shown in the opposite order
\* of the store's
C3_Witness ==
  /\ lastOp.op = "sort"
  /\ \/ /\ gene.loaded
        /\ heap[gene.allGenes] = <<1, 2>>
        /\ heap[gene.filteredGenes] = <<2, 1>>
     \/ /\ pub.loaded
        /\ heap[pub.allPublications] = <<1, 2>>
        /\ heap[pub.filteredPublications] = <<2, 1>>

(***************************************************************************)
(* Paginator claims, under SpecPaginator.                                  *)
(***************************************************************************)

\* C4: in every state reachable by goToPage(n) for any integer n, nextPage,
\* prevPage, updateData(seq) and changeItemsPerPage(k) with k >= 1,
\* currentPage lies in [1, max(1, totalPages)], totalPages being
\* ceil(total / itemsPerPage).
C4_CurrentPageInRange ==
  LET total == Len(heap[paginator.allData])
      totalPages == (total + paginator.itemsPerPage - 1) \div paginator.itemsPerPage
  IN /\ paginator.currentPage >= 1
     /\ paginator.currentPage <= (IF totalPages >= 1 THEN totalPages ELSE 1)

\* goToPage was just asked for a page beyond the last one, from the last of
\* several pages
C4_Witness ==
  /\ lastOp.op = "goToPage"
  /\ lastOp.arg > getTotalPages(paginator, heap)
  /\ paginator.currentPage = getTotalPages(paginator, heap)
  /\ paginator.currentPage > 1

\* The navigation step being taken is out of range in the state it starts from
OutOfRangeNavigation ==
  \/ /\ lastOp'.op = "goToPage"
     /\ lastOp'.arg < 1 \/ lastOp'.arg > getTotalPages(paginator, heap)
  \/ /\ lastOp'.op = "nextPage"
     /\ paginator.currentPage >= getTotalPages(paginator, heap)
  \/ /\ lastOp'.op = "prevPage"
     /\ paginator.currentPage = 1

\* C5: out-of-range navigation (goToPage(n) with n < 1 or n > totalPages,
\* nextPage on the last page, prevPage on page 1) leaves currentPage,
\* itemsPerPage, the data and the controls as they were and does not invoke
\* the render callback; a page size of 2 over 5 records gives 3 pages, of
\* which page 3 holds exactly 1 record.
C5_OutOfRangeIsNoOp ==
  /\ [][OutOfRangeNavigation =>
          /\ paginator' = paginator
          /\ heap' = heap
          /\ controls' = controls
          /\ rendered' = rendered
          /\ ~lastOp'.rendered]_vars
  /\ [](paginator.itemsPerPage = 2 /\ Len(heap[paginator.allData]) = 5 =>
          /\ getTotalPages(paginator, heap) = 3
          /\ paginator.currentPage = 3 => Len(getCurrentPageData(paginator, heap)) = 1)

\* goToPage(4) was just called on page 3 of 3 (page size 2 over 5 records),
\* with a render callback set
C5_Witness ==
  /\ paginator.itemsPerPage = 2
  /\ Len(heap[paginator.allData]) = 5
  /\ paginator.renderCallback
  /\ lastOp = Op("goToPage", 4, 3, FALSE)
  /\ paginator.currentPage = 3

\* C6: updateData(newSequence) sets currentPage to 1 and makes the total and
\* the page count those of newSequence; changeItemsPerPage(n) sets
\* currentPage to 1 and the page size to n; in both cases the render
\* callback, when one is set, receives the first page of the new
\* configuration.
C6_ResetToFirstPage ==
  LET data == heap[paginator.allData]
      firstPage == SubSeq(data, 1, Min(paginator.itemsPerPage, Len(data)))
  IN /\ lastOp.op = "updateData" =>
          /\ paginator.allData = lastOp.arg
          /\ paginator.currentPage = 1
          /\ controls.total = Len(heap[lastOp.arg])
          /\ controls.totalPages = Ceil(Len(heap[lastOp.arg]), paginator.itemsPerPage)
          /\ controls.currentPage = 1
     /\ lastOp.op = "changeItemsPerPage" =>
          /\ paginator.itemsPerPage = lastOp.arg
          /\ paginator.currentPage = 1
          /\ controls.currentPage = 1
     /\ lastOp.op \in {"updateData", "changeItemsPerPage"} /\ paginator.renderCallback =>
          /\ lastOp.rendered
          /\ rendered = firstPage

\* updateData has just replaced the data while a later page was shown, and
\* the new data has several pages
C6_Witness ==
  /\ lastOp.op = "updateData"
  /\ lastOp.from > 1
  /\ paginator.renderCallback
  /\ getTotalPages(paginator, heap) > 1

\* C7: a Paginator whose controls are drawn over an empty sequence reports 0
\* total pages and an empty current-page slice, and both its Previous and
\* its Next control are disabled.
C7_EmptyBothDisabled ==
  controls.shown /\ Len(heap[paginator.allData]) = 0 =>
    /\ getTotalPages(paginator, heap) = 0
    /\ controls.totalPages = 0
    /\ getCurrentPageData(paginator, heap) = << >>
    /\ controls.prevDisabled
    /\ controls.nextDisabled


(***************************************************************************)
(* Sorter claims, under SpecSorter.                                        *)
(***************************************************************************)

\* C11: a sort call on the column that is already the sort column toggles the
\* direction between ascending and descending; a sort call on any other
\* column (the first call included) makes it the sort column, ascending.
C11_ToggleOrAscending ==
  [][lastOp'.op = "sort" =>
       LET column == SorterHeaders[lastOp'.arg][1]
       IN /\ sorter'.sortColumn = column
          /\ sorter'.sortDirection =
               IF sorter.sortColumn = column
                 THEN (IF sorter.sortDirection = "asc" THEN "desc" ELSE "asc")
                 ELSE "asc"]_vars

\* A column sorted twice in a row: the second call made it descending
C11_Witness ==
  /\ mode = "sorter"
  /\ lastOp.op = "sort"
  /\ sorter.sortColumn = "citations"
  /\ sorter.sortDirection = "desc"
  /\ Len(heap[sorter.data]) >= 2


\* The array the sorter holds, the column it was last sorted on and whether the
\* record at a position has no value there
SortedData == heap[sorter.data]
KeyIsNull(ref, column) ==
  column \in NumberColumns /\ objects[ref][column].kind \in {"null", "undefined"}

\* C12: after a sort call, on any column and in either direction, every
\* record whose value in that column is null or undefined comes after every
\* record that has a value there.
C12_NullsLast ==
  (mode = "sorter" /\ lastOp.op = "sort") =>
    \A k, l \in 1..Len(SortedData) :
      (k < l /\ KeyIsNull(SortedData[k], sorter.sortColumn))
        => KeyIsNull(SortedData[l], sorter.sortColumn)

\* A descending sort on year moved the null year of the first record behind
\* two records that have a year
C12_Witness ==
  /\ mode = "sorter" /\ lastOp.op = "sort"
  /\ sorter.sortColumn = "year" /\ sorter.sortDirection = "desc"
  /\ Len(SortedData) >= 3
  /\ KeyIsNull(1, "year")
  /\ ~KeyIsNull(SortedData[1], "year") /\ ~KeyIsNull(SortedData[2], "year")
  /\ SortedData[Len(SortedData)] = 1

\* C13: with type 'auto' the values of a numeric column are compared as
\* numbers whenever some record has a value, also when the first record's
\* value is null: after the call the records that have a value are in
\* numeric order (ascending or descending as the direction says).
C13_NumericByFirstNonNull ==
  (mode = "sorter" /\ lastOp.op = "sort" /\ SorterHeaders[lastOp.arg][2] = "auto"
     /\ sorter.sortColumn \in NumberColumns) =>
    \A k, l \in 1..Len(SortedData) :
      (k < l /\ ~KeyIsNull(SortedData[k], sorter.sortColumn)
             /\ ~KeyIsNull(SortedData[l], sorter.sortColumn))
        => LET vk == objects[SortedData[k]][sorter.sortColumn].v
               vl == objects[SortedData[l]][sorter.sortColumn].v
           IN IF sorter.sortDirection = "asc" THEN vk <= vl ELSE vk >= vl

\* The key a record is sorted by: its number, its lower-cased text, or null
SortKey(ref, column) ==
  IF column \in NumberColumns THEN objects[ref][column]
  ELSE toLowerCase(objects[ref][column])

\* ref x is before ref y in the array
Before(array, x, y) ==
  \E k, l \in 1..Len(array) : k < l /\ array[k] = x /\ array[l] = y

\* C14: the sort is stable and its comparator consistent: two records whose
\* keys are equal (two null keys included) keep the relative order they had
\* before the call, and a call that toggles the direction of a sorted column
\* reverses the order of every two records whose keys are strictly ordered.
C14_StableAndReversing ==
  [][(mode = "sorter" /\ lastOp'.op = "sort") =>
       \A x, y \in Range(SortedData) :
         LET column == sorter'.sortColumn
             same == SortKey(x, column) = SortKey(y, column)
             strict == ~same /\ ~KeyIsNull(x, column) /\ ~KeyIsNull(y, column)
         IN /\ (same /\ Before(SortedData, x, y)) => Before(heap'[sorter'.data], x, y)
            /\ (strict /\ lastOp.op = "sort" /\ sorter.sortColumn = column
                  /\ Before(SortedData, x, y)) => Before(heap'[sorter'.data], y, x)]_vars


(***************************************************************************)
(* Export claims, under SpecExport.                                        *)
(***************************************************************************)

\* A standard CSV parser (RFC 4180): fields are separated by commas and
\* records by line breaks, except inside a quoted field; a quoted field runs
\* from its opening quote to its closing quote, two quotes inside it
\* standing for one.  A position is inside a quoted field when an odd number
\* of quote characters precedes it.
SplitUnquoted(s, separator) ==
  LET cuts == {i \in 1..Len(s) :
                 /\ s[i] = separator
                 /\ Cardinality({j \in 1..(i - 1) : s[j] = Quote}) % 2 = 0}
      cut(k) == IF k = 0 THEN 0
                ELSE IF k > Cardinality(cuts) THEN Len(s) + 1
                ELSE CHOOSE p \in cuts : Cardinality({q \in cuts : q < p}) = k - 1
  IN [k \in 1..(Cardinality(cuts) + 1) |-> SubSeq(s, cut(k - 1) + 1, cut(k) - 1)]

RECURSIVE halveQuotes(_)
halveQuotes(s) ==
  IF s = << >> THEN << >>
  ELSE IF Head(s) = Quote /\ Len(s) >= 2 /\ s[2] = Quote
    THEN <<Quote>> \o halveQuotes(SubSeq(s, 3, Len(s)))
    ELSE <<Head(s)>> \o halveQuotes(Tail(s))

Unquoted(field) ==
  IF field # << >> /\ Head(field) = Quote
    THEN halveQuotes(SubSeq(field, 2, Len(field) - 1))
    ELSE field

\* The sequence of records, each the sequence of its fields
ParseCsv(text) ==
  LET lines == SplitUnquoted(text, Newline)
  IN [r \in 1..Len(lines) |->
        LET fields == SplitUnquoted(lines[r], Comma)
        IN [f \in 1..Len(fields) |-> Unquoted(fields[f])]]

\* The view an export reads, its column headers and the values of its
\* records in column order
ExportedView ==
  IF mode = "gene" THEN heap[gene.filteredGenes] ELSE heap[pub.filteredPublications]
ExportHeaders == IF mode = "gene" THEN GeneCsvHeaders ELSE PublicationCsvHeaders
ExportedValues(ref) ==
  IF mode = "gene" THEN GeneExportRow(objects[ref]) ELSE PublicationExportRow(objects[ref])

\* A field value as text: the empty field for a missing or null value
FieldText(cell) == IF cell.kind \in {"null", "undefined"} THEN << >> ELSE String(cell)

\* C15: parsing an exported file with a standard CSV parser gives the header
\* row and then, for every record of the view and every column, exactly the
\* field value: also for values with commas, quotes or line breaks and for
\* the number 0.
C15_RoundTrip ==
  download.made =>
    ParseCsv(download.text) =
      <<ExportHeaders>> \o
        [k \in 1..Len(ExportedView) |->
           [c \in 1..Len(ExportHeaders) |-> FieldText(ExportedValues(ExportedView[k])[c])]]

\* What C16 asks of a file: the header row first, then one row per record of
\* the view, in view order (the first column tells), one field per column,
\* and an empty field where the value is missing or null
WellFormedExport ==
  LET parsed == ParseCsv(download.text)
  IN /\ Len(parsed) = 1 + Len(ExportedView)
     /\ parsed[1] = ExportHeaders
     /\ \A k \in 1..Len(ExportedView) :
          /\ Len(parsed[k + 1]) = Len(ExportHeaders)
          /\ parsed[k + 1][1] = FieldText(ExportedValues(ExportedView[k])[1])
          /\ \A c \in 1..Len(ExportHeaders) :
               ExportedValues(ExportedView[k])[c].kind \in {"null", "undefined"}
                 => parsed[k + 1][c] = << >>

\* C16 as stated: every export, of every filtered view (an empty one
\* included), hands over a file that begins with the header row and has one
\* row per record of the view.
C16_EveryView ==
  lastOp.op = "exportResults" => (download.made /\ WellFormedExport)

\* C16: every file an export hands over begins with the header row and has
\* exactly one row per record of the view, in view order, with one field per
\* column and empty fields for missing or null values; the publications
\* export hands over a file for every view, the gene export for every view
\* but the empty one, for which it hands over nothing.
C16_HeaderAndRows ==
  lastOp.op = "exportResults" =>
    /\ download.made <=> (mode = "publications" \/ Len(ExportedView) > 0)
    /\ download.made => WellFormedExport

\* An empty publications view was exported: the file is the header row alone;
\* and (second case) a gene view of two records, one without any P15 value
C16_Witness ==
  /\ lastOp.op = "exportResults"
  /\ \/ /\ mode = "publications" /\ pub.loaded /\ Len(objects) > 0
        /\ Len(ExportedView) = 0
        /\ download.made /\ ParseCsv(download.text) = <<PublicationCsvHeaders>>
     \/ /\ mode = "gene" /\ Len(ExportedView) = 2
        /\ ~objects[ExportedView[2]].spatial_p15.present
        /\ download.made


(***************************************************************************)
(* Load claims, under Spec.                                                *)
(***************************************************************************)

\* The steps of initialize itself; every other step is a handler reached
\* from the page (a filter, a sort, a page change, an export)
LoadOps == {"new", "fetch", "initialize", "initializeFailed"}

\* The store has been assigned from the fetched document
StoreAssigned ==
  /\ load.response \in {"ok", "not ok"}
  /\ load.status = "content"
  /\ IF mode = "gene"
       THEN gene.loaded /\ heap[gene.allGenes] = RecordRefs(Len(objects))
       ELSE pub.loaded /\ heap[pub.allPublications] = RecordRefs(Len(objects))

\* C17: a filter, sort, pagination or export handler runs only in a state in
\* which the store has been assigned from the fetched document; while the
\* fetch is pending, and for good once the load has failed, the engine has no
\* handlers, no sorter and no paginator.
C17_HandlersAfterLoad ==
  [][/\ (lastOp'.op \notin LoadOps) => StoreAssigned
     /\ (load'.status # "content") =>
          /\ ~gene'.loaded /\ ~pub'.loaded
          /\ paginator' = NoPaginator /\ sorter' = NoSorter]_vars

\* A sort ran on the gene page after the store was assigned
C17_Witness ==
  /\ mode = "gene" /\ lastOp.op = "sort"
  /\ StoreAssigned /\ Len(objects) >= 2

\* C18: when the fetch fails (the request rejects, the response is not 2xx
\* whatever its body, the body is malformed or has no record array) the
\* engine never reaches the loaded state: the store stays empty, nothing is
\* bound, and once initialize has returned the error state is shown.
C18_FailedFetchIsError ==
  (load.response \in {"rejected", "not ok"} \/ lastOp.op = "initializeFailed") =>
    /\ ~gene.loaded /\ ~pub.loaded
    /\ objects = << >> /\ heap = EmptyHeap
    /\ paginator = NoPaginator /\ sorter = NoSorter
    /\ load.status # "content"
    /\ (load.response = "rejected" \/ lastOp.op = "initializeFailed"
          \/ mode = "publications") => load.status = "error"


(***************************************************************************)
(* Numeric filter fields, under SpecFilters.                               *)
(***************************************************************************)

\* A numeric criterion as the claim reads it: text that is no number (the
\* handlers parse it to NaN) stands for the field's default
OrDefault(value, default) == IF value.kind = "NaN" THEN default ELSE value

\* C19: non-numeric text in a numeric filter field disables that field's
\* filter: the filtered view is the one obtained with the field at its
\* default (gene: p-value threshold 1.0, no log2FC bound; publications: no
\* year bound, no citation minimum).
C19_NonNumericDisables ==
  /\ (mode = "gene" /\ gene.loaded) =>
       heap[gene.filteredGenes] =
         geneResults(heap[gene.allGenes],
                     [gene EXCEPT
                        !.filters.pvalueThreshold = OrDefault(@, Num(PValueOne)),
                        !.filters.log2fcMin = OrDefault(@, Null),
                        !.filters.log2fcMax = OrDefault(@, Null)],
                     objects)
  /\ (mode = "publications" /\ pub.loaded) =>
       heap[pub.filteredPublications] =
         publicationResults(heap[pub.allPublications],
                            [pub EXCEPT
                               !.filters.yearMin = OrDefault(@, Null),
                               !.filters.yearMax = OrDefault(@, Null),
                               !.filters.citationMin = OrDefault(@, Null)],
                            objects)


(***************************************************************************)
(* Debounce claims, under SpecDebounce.                                    *)
(***************************************************************************)

\* The calls of a handler so far form one burst: each came less than Wait
\* after the one before
IsBurst(calls) ==
  \A k \in 1..(Len(calls) - 1) : calls[k + 1].at - calls[k].at < Wait

\* For a burst, func has run at most once, and then for the last call: with
\* its arguments and no sooner than Wait after it
BurstRunsOnce ==
  \A h \in Handlers :
    LET calls == debounced.calls[h]
        runs == debounced.runs[h]
    IN (mode = "debounce" /\ IsBurst(calls)) =>
         /\ Len(runs) <= 1
         /\ \A r \in 1..Len(runs) :
              /\ runs[r].call = Len(calls)
              /\ runs[r].args = calls[Len(calls)].args
              /\ runs[r].at >= calls[Len(calls)].at + Wait

\* The last call of every handler has been executed
LastCallRan ==
  \A h \in Handlers :
    LET calls == debounced.calls[h]
        runs == debounced.runs[h]
    IN calls # << >> =>
         /\ runs # << >>
         /\ runs[Len(runs)].call = Len(calls)
         /\ runs[Len(runs)].args = calls[Len(calls)].args

\* A call of one handler leaves the pending timer of the other untouched
IndependentTimers ==
  \A h, g \in Handlers :
    (g # h /\ debounced'.calls[h] # debounced.calls[h])
      => /\ debounced'.timers[timeoutOf(g)] = debounced.timers[timeoutOf(g)]
         /\ debounced.timers[timeoutOf(g)].pending
              => debounced.timers[timeoutOf(g)].handler = g

\* C20: a debounced handler collapses a burst of calls (each less than wait
\* after the one before) into one execution of func, which happens, happens
\* only once wait has passed since the last call, and gets the last call's
\* arguments; handlers made by separate debounce calls have timers of their
\* own, so a call of one never cancels or delays the other's execution.
C20_BurstCollapses ==
  /\ []BurstRunsOnce
  /\ <>[]LastCallRan
  /\ [][IndependentTimers]_vars

\* A burst of two calls of handler 1 with different arguments has run once,
\* with the second call's, while a call of handler 2 is still pending
C20_Witness ==
  /\ mode = "debounce"
  /\ Len(debounced.calls[1]) = 2 /\ IsBurst(debounced.calls[1])
  /\ debounced.calls[1][1].args # debounced.calls[1][2].args
  /\ Len(debounced.runs[1]) = 1 /\ debounced.runs[1][1].args = debounced.calls[1][2].args
  /\ debounced.timers[timeoutOf(2)].pending

(***************************************************************************)
(* Page slices, under SpecPaginator.                                       *)
(***************************************************************************)
\* getCurrentPageData() of the paginator as it stands, were it on page i
PageSlice(i) == getCurrentPageData([paginator EXCEPT !.currentPage = i], heap)

\* The slices of pages 1..n, one after the other
RECURSIVE PagesUpTo(_)
PagesUpTo(n) == IF n = 0 THEN << >> ELSE PagesUpTo(n - 1) \o PageSlice(n)

\* C30: for every sequence S and every page size k >= 1 the page slices
\* partition S: the number of pages is the least n with n * k >= |S|, the
\* slices of pages 1..n one after the other are exactly S, every page holds
\* at most k records and only the last page may hold fewer than k.
C30_PagesPartition ==
  mode = "paginator" =>
    LET S == heap[paginator.allData]
        k == paginator.itemsPerPage
        n == getTotalPages(paginator, heap)
    IN /\ n * k >= Len(S)
       /\ n > 0 => (n - 1) * k < Len(S)
       /\ PagesUpTo(n) = S
       /\ \A i \in 1..n :
            /\ Len(PageSlice(i)) \in 1..k
            /\ i < n => Len(PageSlice(i)) = k

\* Three pages, the last one shorter than the others
C30_Witness ==
  /\ mode = "paginator"
  /\ lastOp.op \in {"goToPage", "changeItemsPerPage", "updateData"}
  /\ getTotalPages(paginator, heap) = 3
  /\ paginator.itemsPerPage = 2
  /\ Len(PageSlice(3)) = 1
  /\ PagesUpTo(3) = heap[paginator.allData]

(***************************************************************************)
(* Year bounds, under SpecFilters.                                         *)
(***************************************************************************)
\* C28: in publication mode a publication whose year is null is not in the
\* filtered view whenever a year bound is set: the minimum year, the maximum
\* year, or both.
C28_NullYearExcluded ==
  (/\ mode = "publications" /\ pub.loaded
   /\ (pub.filters.yearMin.kind # "null" \/ pub.filters.yearMax.kind # "null")) =>
    \A k \in 1..Len(heap[pub.filteredPublications]) :
      objects[heap[pub.filteredPublications][k]].year.kind # "null"

(***************************************************************************)
(* Filters and sorts together, under Spec.                                 *)
(***************************************************************************)
\* C26: in publication mode, after any sequence of filter changes and header
\* sorts, every record the paginator holds satisfies the current filter
\* criteria and the displayed results count is the number of records the
\* paginator holds: a sort after narrowing brings back no excluded record.
C26_SortKeepsFilter ==
  (mode = "publications" /\ pub.loaded) =>
    LET held == heap[paginator.allData]
        passing == publicationResults(heap[pub.allPublications], pub, objects)
    IN /\ \A k \in 1..Len(held) : held[k] \in Range(passing)
       /\ resultsCount.filtered = Len(held)

\* C27: in gene mode, whenever the sorter records an active sort (sortColumn
\* is not null) the sequence the paginator holds is ordered by that column
\* in the recorded direction, also after a filter change or a reset that
\* follows the sort.
C27_ViewStaysSorted ==
  (mode = "gene" /\ gene.loaded /\ sorter.sortColumn # "null") =>
    LET held == heap[paginator.allData]
    IN \A k, l \in 1..Len(held) :
         k < l => compare(objects[held[k]], objects[held[l]], sorter.sortColumn,
                          "string", sorter.sortDirection) <= 0

(***************************************************************************)
(* The seizure flag, under SpecFilters.                                    *)
(***************************************************************************)
\* The filter state with the seizure toggle alone enabled
OnlySeizureToggle ==
  [DefaultGeneFilters EXCEPT !.datasets = [bulk_rnaseq |-> FALSE, spatial_p15 |-> FALSE,
                                           spatial_p30 |-> FALSE, seizure_gene |-> TRUE]]

\* C23: for every raw gene record whose is_seizure_gene or seizure_gene is
\* true (the index builder writes is_seizure_gene), normalizeGeneData gives a
\* record whose seizure flag is true, and the record is in the filtered view
\* when the seizure toggle is the only dataset toggle enabled.
C23_SeizureAliasReconciled ==
  (mode = "gene" /\ gene.loaded) =>
    \A r \in 1..Len(RawGenes) :
      LET raw == RawGenes[r]
          g == normalizeGeneData(raw)
      IN ((raw.is_seizure_gene \/ raw.seizure_gene) /\ g \in Range(objects)) =>
           /\ g.seizure_gene
           /\ (gene.filters = OnlySeizureToggle /\ gene.currentSearchTerm = << >>) =>
                \E k \in 1..Len(heap[gene.filteredGenes]) :
                  objects[heap[gene.filteredGenes][k]] = g

(***************************************************************************)
(* Events and timers, under SpecEvents.                                    *)
(***************************************************************************)
\* The engine fields the controls show: each text field read as its handler
\* reads it, the select and the checkboxes as stored
RECURSIVE ShownBy(_, _)
ShownBy(e, fields) ==
  IF fields = {} THEN e
  ELSE LET field == CHOOSE f \in fields : TRUE
       IN ShownBy(ReadControl(e, field, debounced.value[field]), fields \ {field})

C22_RenderNeverThrows ==
  (mode = "gene" /\ gene.loaded) =>
    /\ lastOp.op # "SyntaxError"
    /\ rendered = Slice(geneResults(heap[gene.allGenes], gene, objects), 0,
                        paginator.itemsPerPage)

(***************************************************************************)
(* Chart registry claims, under SpecCharts and SpecChartsAll.              *)
(***************************************************************************)
\* The charts of a canvas on which destroy() was never called
LiveCharts(canvasId) ==
  {k \in 1..Len(charts.made) :
     charts.made[k].canvas = canvasId /\ charts.made[k].destroyed = 0}

\* C25: for every canvas id and every sequence of create* and destroyChart
\* calls, at most one chart of the canvas has not been destroyed, the
\* registry entry of the canvas (if any) is that live chart, and no chart
\* is destroyed twice.
C25_DestroyBeforeRecreate ==
  mode = "charts" =>
    /\ \A canvasId \in Canvases :
         /\ Cardinality(LiveCharts(canvasId)) <= 1
         /\ charts.chartInstances[canvasId] # 0 =>
              LiveCharts(canvasId) = {charts.chartInstances[canvasId]}
    /\ \A k \in 1..Len(charts.made) : charts.made[k].destroyed <= 1

\* A canvas drawn a second time: its first chart is destroyed once, the
\* second one is live and registered
C25_Witness ==
  /\ mode = "charts"
  /\ charts.last \in CreateFunctions
  /\ Len(charts.made) = 2
  /\ charts.made[1] = [canvas |-> "volcanoPlot", destroyed |-> 1]
  /\ charts.made[2] = [canvas |-> "volcanoPlot", destroyed |-> 0]
  /\ charts.chartInstances["volcanoPlot"] = 2

\* C29: destroyAllCharts completes without error and leaves the registry
\* empty: when it returns every chart registered before has been destroyed
\* exactly once and no canvas id maps to a chart, so that a later create* on
\* the same canvas destroys no chart that is destroyed already.
C29_DestroyAllEmptiesRegistry ==
  mode = "charts" =>
    /\ charts.last = "destroyAllCharts" =>
         /\ ~charts.threw
         /\ \A canvasId \in Canvases : charts.chartInstances[canvasId] = 0
         /\ \A k \in 1..Len(charts.made) : charts.made[k].destroyed = 1
    /\ \A k \in 1..Len(charts.made) : charts.made[k].destroyed <= 1

(***************************************************************************)
(* Merge claims, under SpecBuild.                                          *)
(***************************************************************************)
\* The sources in merge order, and the first row of a source with the key
\* (0 when the source has none)
MergeOrder == <<"rnaseq", "spatial_p15", "spatial_p30">>

FirstRow(source, key) ==
  IF \E i \in 1..Len(source) : toUpperCase(source[i].symbol) = key
    THEN CHOOSE i \in 1..Len(source) :
           /\ toUpperCase(source[i].symbol) = key
           /\ \A j \in 1..(i - 1) : toUpperCase(source[j].symbol) # key
    ELSE 0

\* The symbol of the first occurrence of the key over the sources in merge
\* order, the seizure list last
FirstSymbol(key) ==
  IF FirstRow(index.rnaseq, key) # 0
    THEN index.rnaseq[FirstRow(index.rnaseq, key)].symbol
  ELSE IF FirstRow(index.spatial_p15, key) # 0
    THEN index.spatial_p15[FirstRow(index.spatial_p15, key)].symbol
  ELSE IF FirstRow(index.spatial_p30, key) # 0
    THEN index.spatial_p30[FirstRow(index.spatial_p30, key)].symbol
  ELSE key

\* C24: after buildMasterIndex has merged the bulk, spatial P15, spatial P30
\* and seizure sources in that order, no two records share a symbol
\* (case-insensitively), and for a symbol that occurs more than once the
\* symbol and each dataset observation kept are those of its first
\* occurrence; the records normalizeGeneData makes of the written document
\* have pairwise different symbols.
C24_FirstOccurrenceWins ==
  (mode = "build" /\ index.phase = "written") =>
    /\ \A k, l \in 1..Len(index.genes) :
         k # l => toUpperCase(index.genes[k].primary_symbol)
                    # toUpperCase(index.genes[l].primary_symbol)
    /\ \A k \in 1..Len(index.genes) :
         LET g == index.genes[k]
         IN /\ FirstRow(index.rnaseq, g.key) # 0 \/ FirstRow(index.spatial_p15, g.key) # 0
                 \/ FirstRow(index.spatial_p30, g.key) # 0
                 => g.primary_symbol = FirstSymbol(g.key)
            /\ \A d \in 1..Len(MergeOrder) :
                 g[MergeOrder[d]] = FirstRow(index[MergeOrder[d]], g.key)

====
